---------------------------- MODULE Spec2Model ----------------------------
(***************************************************************************)
(* A model of the hybrid retrieval engine of ragmilo:                      *)
(*   backend/rag_core.py       metadata_matches, normalize_scores,         *)
(*                             _ensure_identifiers, HybridRetriever        *)
(*   backend/enhanced_ingest.py  build_faiss_index_from_db,                *)
(*                             build_bm25_index_from_db                    *)
(*   backend/database_manager.py export_to_vector_db                       *)
(*   backend/server.py         ensure_retriever, reload_data, ask_question *)
(*                                                                         *)
(* Conventions.                                                            *)
(*  - A Python float is modelled as an exact rational <<n, d>> in lowest   *)
(*    terms with d > 0; rounding of binary floating point is not modelled. *)
(*  - A Python dict is a TLA+ function whose DOMAIN is the set of keys.    *)
(*    None and the empty dict, which the code treats alike wherever the    *)
(*    model meets them ("if not filters"), are both the empty function.    *)
(*  - A metadata value is tagged: <<"str", s>>, <<"int", i>>,              *)
(*    <<"num", n, d>> (a float), so that Python's == between values of     *)
(*    different types is plain inequality here.                            *)
(*  - Positions are zero-based, as in the code.                            *)
(***************************************************************************)
EXTENDS Integers, Sequences, FiniteSets, TLC

VARIABLES
    inst,      \* the loaded HybridRetriever of the single-call specifications
    pc,        \* "idle" | "called" | "done": position of the caller of retrieve
    call,      \* the arguments of the retrieve call in progress
    outcome,   \* what retrieve gave back: status, results, the call's locals
    db,        \* the rag_chunks rows as get_rag_chunks_by_classification lists them
    files,     \* vector_db.json, vector_index.faiss, bm25_index.pkl on disk
    run,       \* position of enhanced_ingest.main: "idle" | "export" | "faiss" | "bm25" | "meta"
    retriever, \* server.py's module global: None or a reference into heap
    heap,      \* the HybridRetriever objects the server has constructed
    thr        \* the pool threads: position and locals of each

retrVars == <<inst, pc, call, outcome>>
buildVars == <<db, files, run>>
serverVars == <<retriever, heap, thr>>
vars == <<inst, pc, call, outcome, db, files, run, retriever, heap, thr>>

---------------------------------------------------------------------------
(* Rationals *)

Abs(x) == IF x < 0 THEN -x ELSE x

RECURSIVE Gcd(_, _)
Gcd(a, b) == IF b = 0 THEN a ELSE Gcd(b, a % b)

\* n/d in lowest terms, d > 0.
Rat(n, d) ==
    LET s == IF d < 0 THEN -1 ELSE 1
        g == Gcd(Abs(n), Abs(d))
    IN  <<(s * n) \div g, (s * d) \div g>>

Zero == <<0, 1>>
One == <<1, 1>>

RAdd(a, b) == Rat(a[1] * b[2] + b[1] * a[2], a[2] * b[2])
RSub(a, b) == Rat(a[1] * b[2] - b[1] * a[2], a[2] * b[2])
RMul(a, b) == Rat(a[1] * b[1], a[2] * b[2])
RDiv(a, b) == Rat(a[1] * b[2], a[2] * b[1])
RLeq(a, b) == a[1] * b[2] <= b[1] * a[2]
RLt(a, b) == a[1] * b[2] < b[1] * a[2]

\* The greatest / least element of a non-empty set of rationals.
RMax(S) == CHOOSE m \in S : \A x \in S : RLeq(x, m)
RMin(S) == CHOOSE m \in S : \A x \in S : RLeq(m, x)

---------------------------------------------------------------------------
(* Dictionaries and tagged values *)

Str(s) == <<"str", s>>
Int_(i) == <<"int", i>>
Num(r) == <<"num", r[1], r[2]>>

EmptyDict == <<>>

\* dict.get(k, d)
Get(m, k, d) == IF k \in DOMAIN m THEN m[k] ELSE d

\* m[k] = v on a copy of m
Put(m, k, v) == [x \in DOMAIN m \cup {k} |-> IF x = k THEN v ELSE m[x]]

\* The values of a dict, as a set.
Values(m) == {m[k] : k \in DOMAIN m}

---------------------------------------------------------------------------
(* rag_core.py: pure functions *)

\* Mutant: any() where the code has all().
metadata_matches_any(meta, filters) ==
    IF filters = EmptyDict
    THEN TRUE
    ELSE \E k \in DOMAIN filters : k \in DOMAIN meta /\ meta[k] = filters[k]

\* A missing key reads as None, which equals no filter value.
metadata_matches(meta, filters) ==
    IF filters = EmptyDict
    THEN TRUE
    ELSE \A k \in DOMAIN filters : k \in DOMAIN meta /\ meta[k] = filters[k]

\* Mutant: the branch for equal scores left out, so "or 1.0" divides 0 by 1.
normalize_scores_no_uniform(scores) ==
    IF DOMAIN scores = {}
    THEN EmptyDict
    ELSE LET minimum == RMin(Values(scores))
             adjusted == [k \in DOMAIN scores |-> RSub(scores[k], minimum)]
             m == RMax(Values(adjusted))
             scale == IF m = Zero THEN One ELSE m
         IN  [k \in DOMAIN adjusted |-> RDiv(adjusted[k], scale)]

\* Mutant: a key whose scaled score is 0 is left out of the result.
normalize_scores_drop_zero(scores) ==
    IF DOMAIN scores = {}
    THEN EmptyDict
    ELSE LET minimum == RMin(Values(scores))
             maximum == RMax(Values(scores))
         IN  IF maximum = minimum
             THEN [k \in DOMAIN scores |-> One]
             ELSE [k \in {x \in DOMAIN scores : scores[x] # minimum} |->
                      RDiv(RSub(scores[k], minimum), RSub(maximum, minimum))]

normalize_scores(scores) ==
    IF DOMAIN scores = {}
    THEN EmptyDict
    ELSE LET minimum == RMin(Values(scores))
             maximum == RMax(Values(scores))
         IN  IF maximum = minimum
             THEN [k \in DOMAIN scores |-> One]
             ELSE LET adjusted == [k \in DOMAIN scores |-> RSub(scores[k], minimum)]
                      m == RMax(Values(adjusted))
                      scale == IF m = Zero THEN One ELSE m
                  IN  [k \in DOMAIN adjusted |-> RDiv(adjusted[k], scale)]


\* Python truthiness of a dict.get(...) result; Missing stands for None.
Missing == <<"none">>
Truthy(v) == v # Missing /\ v # Str("") /\ v # Int_(0) /\ v # Num(Zero)

\* repr of the float n/d, for the halves and wholes of the model.
FloatRepr(n, d) ==
    IF d = 1
    THEN ToString(n) \o ".0"
    ELSE ToString(n \div 2) \o ".5"

\* str(v) as an f-string renders it.
Fmt(v) ==
    IF v[1] = "str" THEN v[2]
    ELSE IF v[1] = "int" THEN ToString(v[2])
    ELSE IF v[1] = "num" THEN FloatRepr(v[2], v[3])
    ELSE "None"

\* hashlib.sha1(chunk).hexdigest()[:8]: an uninterpreted function of the text.
Sha1Hex8(chunk) == "#" \o chunk

\* Mutant: int(s) is 0 for every string it accepts.
IntOfStrZero == [s \in {"0", "1", "2", "7"} |-> 0]

\* int(s) for the strings of the model; any other string raises ValueError.
IntOfStr == [s \in {"0", "1", "2", "7"} |->
                 CASE s = "0" -> 0 [] s = "1" -> 1 [] s = "2" -> 2 [] s = "7" -> 7]

\* Mutant: the label of the document enters the synthesized doc_id.
SynthDocIdWithLabel(meta, chunk) ==
    LET fallback == IF Truthy(Get(meta, "matiere", Missing))
                    THEN Get(meta, "matiere", Missing) ELSE Str("doc")
    IN  Str(Fmt(fallback) \o "-" \o Fmt(Get(meta, "doc_label", Missing))
            \o Sha1Hex8(chunk))

\* Lines 57-59: the doc_id made for a chunk that has none.
SynthDocId(meta, chunk) ==
    LET fallback == IF Truthy(Get(meta, "matiere", Missing))
                    THEN Get(meta, "matiere", Missing) ELSE Str("doc")
    IN  Str(Fmt(fallback) \o "-" \o Sha1Hex8(chunk))

_ensure_identifiers(metadata, chunk) ==
    LET m0 == metadata
        doc_id0 == Get(m0, "doc_id", Missing)
        doc_id == IF Truthy(doc_id0) THEN doc_id0 ELSE SynthDocId(m0, chunk)
        m1 == IF Truthy(doc_id0) THEN m0 ELSE Put(m0, "doc_id", doc_id)
        doc_label == IF Truthy(Get(m1, "doc_label", Missing))
                     THEN m1["doc_label"] ELSE doc_id
        m2 == Put(m1, "doc_label", doc_label)
        page == Get(m2, "page", Str("?"))
        m3 == Put(m2, "page", page)
        ci0 == Get(m3, "chunk_index", Missing)
        ci1 == IF ci0[1] = "str"
               THEN IF ci0[2] \in DOMAIN IntOfStr THEN Int_(IntOfStr[ci0[2]]) ELSE Missing
               ELSE ci0
        chunk_index == IF ci1 = Missing THEN Int_(0) ELSE ci1
        m4 == Put(m3, "chunk_index", chunk_index)
    IN  IF Truthy(Get(m4, "chunk_id", Missing))
        THEN m4
        ELSE Put(m4, "chunk_id",
                 Str(Fmt(doc_id) \o ":" \o Fmt(page) \o ":" \o Fmt(chunk_index)))

---------------------------------------------------------------------------
(* rag_core.py: HybridRetriever.retrieve *)

\* Positions 0 .. n-1.
Pos(n) == 0 .. (n - 1)

MinOf(a, b) == IF a < b THEN a ELSE b

\* The results a top-k search may give: k positions none of which scores below
\* a position left out.  Which of several equal scores is kept is not
\* determined (faiss's heap, numpy's argpartition).
TopKSets(scores, k) ==
    {S \in SUBSET DOMAIN scores :
        /\ Cardinality(S) = k
        /\ \A a \in S : \A b \in (DOMAIN scores) \ S : RLeq(scores[b], scores[a])}

\* Mutant: the sort without reverse=True.
RECURSIVE SortedAscending(_, _)
SortedAscending(S, key) ==
    IF S = {}
    THEN {<<>>}
    ELSE UNION {{<<m>> \o t : t \in SortedAscending(S \ {m}, key)} :
                m \in {a \in S : \A b \in S : RLeq(key[a], key[b])}}

\* Mutant: the candidates left in ascending position order, the sort dropped.
RECURSIVE SortedByPosition(_, _)
SortedByPosition(S, key) ==
    IF S = {}
    THEN {<<>>}
    ELSE LET m == CHOOSE a \in S : \A b \in S : a <= b
         IN  {<<m>> \o t : t \in SortedByPosition(S \ {m}, key)}

\* All orders of the set S that are non-increasing in key: what a stable
\* descending sort makes of a list built by iterating over a Python set.  An
\* order starts with an element of greatest key and goes on with an order of
\* the rest.
RECURSIVE SortedOrders(_, _)
SortedOrders(S, key) ==
    IF S = {}
    THEN {<<>>}
    ELSE UNION {{<<m>> \o t : t \in SortedOrders(S \ {m}, key)} :
                m \in {a \in S : \A b \in S : RLeq(key[b], key[a])}}

\* The keys of a score dict in insertion order.  The dense search inserts in
\* descending score order; equal scores are put in ascending position order.
RECURSIVE KeysInOrder(_)
KeysInOrder(scores) ==
    IF DOMAIN scores = {}
    THEN <<>>
    ELSE LET top == CHOOSE a \in DOMAIN scores :
                        \A b \in DOMAIN scores :
                            \/ RLt(scores[b], scores[a])
                            \/ (scores[b] = scores[a] /\ a <= b)
         IN  <<top>> \o KeysInOrder([k \in (DOMAIN scores) \ {top} |-> scores[k]])

\* Mutant: the scores written to documents[idx]['metadata'] itself.
StoredAliased(documents, idx, written) ==
    [documents EXCEPT ![idx].metadata = written]

\* Lines 221-224 and 233-236: the three score keys are written to
\* documents[idx]['metadata'].copy(), so the stored mapping is not the target.
StoredAfterWrite(documents, idx, written) == documents

\* Mutant: the min-max scaled scores attached in place of the raw ones.
ScoredMetaNormalized(documents, idx, vraw, lraw, combined) ==
    Put(Put(Put(documents[idx].metadata,
                "vector_score", Num(Get(normalize_scores(vraw), idx, Zero))),
            "lexical_score", Num(Get(normalize_scores(lraw), idx, Zero))),
        "combined_score", Num(combined))

\* Lines 221-224: the copy of the stored metadata with the three scores.
ScoredMeta(documents, idx, vraw, lraw, combined) ==
    Put(Put(Put(documents[idx].metadata,
                "vector_score", Num(Get(vraw, idx, Zero))),
            "lexical_score", Num(Get(lraw, idx, Zero))),
        "combined_score", Num(combined))

\* One element of results; pos is the position it was made from, which the
\* Python tuple (text, score, meta) does not carry.
Entry(documents, idx, vraw, lraw, score) ==
    [pos |-> idx,
     text |-> documents[idx].text,
     score |-> score,
     meta |-> _ensure_identifiers(ScoredMeta(documents, idx, vraw, lraw, score),
                                  documents[idx].text)]

\* Mutant: the two weights exchanged.
CombinedSwapped(alpha, norm_vector, norm_lexical, idx) ==
    RAdd(RMul(RSub(One, alpha), Get(norm_vector, idx, Zero)),
         RMul(alpha, Get(norm_lexical, idx, Zero)))

\* Line 220.
Combined(alpha, norm_vector, norm_lexical, idx) ==
    RAdd(RMul(alpha, Get(norm_vector, idx, Zero)),
         RMul(RSub(One, alpha), Get(norm_lexical, idx, Zero)))

\* Lines 214-216.
Candidates(norm_vector, norm_lexical, vector_scores_raw) ==
    LET c == DOMAIN norm_vector \cup DOMAIN norm_lexical
    IN  IF c = {} /\ DOMAIN vector_scores_raw # {} THEN DOMAIN vector_scores_raw ELSE c

\* Lines 230-240: the entries the backfill appends to a sorted list of
\* length have.
RECURSIVE Backfill(_, _, _, _, _, _, _)
Backfill(extra, have, top_n, documents, vraw, lraw, norm_vector) ==
    IF extra = <<>>
    THEN <<>>
    ELSE LET e == Entry(documents, Head(extra), vraw, lraw,
                        Get(norm_vector, Head(extra), Zero))
         IN  IF have + 1 >= top_n
             THEN <<e>>
             ELSE <<e>> \o Backfill(Tail(extra), have + 1, top_n,
                                    documents, vraw, lraw, norm_vector)

SeqFilter(s, S) == SelectSeq(s, LAMBDA x : x \in S)

\* Mutant: the list returned whole.
TakeAll(s, n) == s

\* Line 242: results[:top_n], top_n >= 0.
Take(s, n) == SubSeq(s, 1, MinOf(n, Len(s)))

\* Lines 211-242, given the two raw score maps.  Besides what the call returns
\* and writes, an outcome records the candidate set, whether the fallback of
\* line 216 was taken and how many entries the backfill loop appended.
Fuse(documents, vraw, lraw, top_n, alpha) ==
    LET norm_vector == normalize_scores(vraw)
        norm_lexical == normalize_scores(lraw)
        candidates == Candidates(norm_vector, norm_lexical, vraw)
        combined == [idx \in candidates |->
                        Combined(alpha, norm_vector, norm_lexical, idx)]
        extra == IF Cardinality(candidates) < top_n
                 THEN SeqFilter(KeysInOrder(vraw), (DOMAIN vraw) \ candidates)
                 ELSE <<>>
        written == candidates \cup {extra[i] : i \in DOMAIN extra}
        stored == [p \in DOMAIN documents |->
                      IF p \in written
                      THEN StoredAfterWrite(documents, p,
                               ScoredMeta(documents, p, vraw, lraw,
                                   IF p \in candidates THEN combined[p]
                                   ELSE Get(norm_vector, p, Zero)))[p]
                      ELSE documents[p]]
    IN  {[status |-> "returned",
          results |-> Take([i \in 1 .. Cardinality(candidates) |->
                               Entry(documents, order[i], vraw, lraw, combined[order[i]])]
                           \o Backfill(extra, Cardinality(candidates), top_n,
                                       documents, vraw, lraw, norm_vector),
                           top_n),
          vector_scores_raw |-> vraw,
          lexical_scores_raw |-> lraw,
          documents |-> stored,
          candidates |-> candidates,
          fallback |-> (DOMAIN norm_vector \cup DOMAIN norm_lexical = {}
                        /\ DOMAIN vraw # {}),
          appended |-> Len(Backfill(extra, Cardinality(candidates), top_n,
                                    documents, vraw, lraw, norm_vector))]
         : order \in SortedOrders(candidates, combined)}

\* What IndexError leaves behind: no list, nothing written.
Raised(documents) ==
    [status |-> "raised", results |-> <<>>,
     vector_scores_raw |-> EmptyDict, lexical_scores_raw |-> EmptyDict,
     documents |-> documents,
     candidates |-> {}, fallback |-> FALSE, appended |-> 0]

\* Lines 181-191: the dense hits kept (ok), or ok = FALSE when a hit lies
\* outside the document list and documents[idx] raises IndexError.  dense[p] is
\* the inner product of the query with vector p.
DenseMaps(self, dense, metadata_filter, vector_k) ==
    IF self.ntotal = 0
    THEN {[ok |-> TRUE, map |-> EmptyDict]}
    ELSE {IF \E idx \in hits : idx \notin DOMAIN self.documents
          THEN [ok |-> FALSE, map |-> EmptyDict]
          ELSE [ok |-> TRUE,
                map |-> [idx \in {h \in hits :
                                   metadata_matches(self.documents[h].metadata,
                                                    metadata_filter)}
                            |-> dense[idx]]]
          : hits \in TopKSets(dense, MinOf(vector_k, self.ntotal))}

\* Mutant: the hits scoring <= 0 kept.
LexicalMapsKeepAll(self, lex, metadata_filter, bm25_k) ==
    LET k == MinOf(bm25_k, self.bm25_size)
    IN  IF k <= 0
        THEN {[ok |-> TRUE, map |-> EmptyDict]}
        ELSE {IF \E idx \in hits : idx \notin DOMAIN self.documents
              THEN [ok |-> FALSE, map |-> EmptyDict]
              ELSE [ok |-> TRUE,
                    map |-> [idx \in {h \in hits :
                                       metadata_matches(self.documents[h].metadata,
                                                        metadata_filter)}
                                |-> lex[idx]]]
              : hits \in TopKSets(lex, k)}

\* Lines 193-209: the lexical hits kept.  lex[p] is the BM25 score of corpus
\* entry p; a hit scoring <= 0 is skipped before the document list is read.
LexicalMaps(self, lex, metadata_filter, bm25_k) ==
    LET k == MinOf(bm25_k, self.bm25_size)
    IN  IF k <= 0
        THEN {[ok |-> TRUE, map |-> EmptyDict]}
        ELSE {LET pos == {h \in hits : RLt(Zero, lex[h])}
              IN  IF \E idx \in pos : idx \notin DOMAIN self.documents
                  THEN [ok |-> FALSE, map |-> EmptyDict]
                  ELSE [ok |-> TRUE,
                        map |-> [idx \in {h \in pos :
                                           metadata_matches(self.documents[h].metadata,
                                                            metadata_filter)}
                                    |-> lex[idx]]]
              : hits \in TopKSets(lex, k)}

\* Every outcome retrieve may have on instance self for one call.
retrieve(self, dense, lex, top_n, metadata_filter, vector_k, bm25_k, alpha) ==
    UNION {IF ~v.ok
           THEN {Raised(self.documents)}
           ELSE UNION {IF ~l.ok
                       THEN {Raised(self.documents)}
                       ELSE Fuse(self.documents, v.map, l.map, top_n, alpha)
                       : l \in LexicalMaps(self, lex, metadata_filter, bm25_k)}
           : v \in DenseMaps(self, dense, metadata_filter, vector_k)}

---------------------------------------------------------------------------
(* The single-call specification: one loaded instance, one caller *)

\* Bounds of the model.
NumDocs == 3
MaxTopN == 3

\* What a query scores at one position: <<inner product with the stored
\* vector, BM25 score of the stored tokens>>.  The pairs of the design's worked
\* example (0.9 and 0.1, 0.5 and 0.8, 0.1 and no lexical match) and two more:
\* a strong dense hit without lexical match, a weak dense hit with a strong
\* lexical one.  Positions may share a pair, so scores tie.
QueryScores ==
    {<<Rat(9, 10), Rat(1, 10)>>, <<Rat(5, 10), Rat(8, 10)>>, <<Rat(1, 10), Zero>>,
     <<Rat(9, 10), Zero>>, <<Rat(1, 10), Rat(8, 10)>>}

MaxOf(a, b) == IF a > b THEN a ELSE b

\* A filter on two classification fields, as ask_question builds it.
MathOf2025 ==
    [k \in {"matiere", "promo"} |-> IF k = "matiere" THEN Str("math") ELSE Str("2025")]

Args(alpha, metadata_filter, vector_k, bm25_k) ==
    [alpha |-> alpha, metadata_filter |-> metadata_filter,
     vector_k |-> vector_k, bm25_k |-> bm25_k]

\* The keyword arguments callers pass: the fusion weight at its extremes and
\* midpoint, the defaults (alpha 0.65, vector_k 20, bm25_k 40), a filter, and
\* pools cut to two candidates.
CallArgs ==
    {Args(Zero, EmptyDict, 20, 40),
     Args(Rat(1, 2), EmptyDict, 20, 40),
     Args(One, EmptyDict, 20, 40),
     Args(Rat(13, 20), MathOf2025, 20, 40),
     Args(Rat(13, 20), EmptyDict, 2, 2),
     Args(Rat(1, 2), MathOf2025, 2, 2)}

\* Stored chunk metadata: complete identifiers, identifiers missing, a
\* classification field missing.
MetaOf(p) ==
    CASE p % 3 = 0 ->
           [k \in {"doc_id", "doc_label", "page", "chunk_index", "chunk_id",
                   "matiere", "promo"} |->
               CASE k = "doc_id" -> Str("d0")
                 [] k = "doc_label" -> Str("Cours 0")
                 [] k = "page" -> Int_(1)
                 [] k = "chunk_index" -> Int_(p)
                 [] k = "chunk_id" -> Str("d0:1:" \o ToString(p))
                 [] k = "matiere" -> Str("math")
                 [] k = "promo" -> Str("2025")]
      [] p % 3 = 1 ->
           [k \in {"chunk_index", "matiere", "promo"} |->
               CASE k = "chunk_index" -> Str("7")
                 [] k = "matiere" -> Str("phys")
                 [] k = "promo" -> Str("2025")]
      [] OTHER ->
           [k \in {"doc_id", "matiere"} |->
               CASE k = "doc_id" -> Str("")
                 [] k = "matiere" -> Str("math")]

TextOf(p) == "chunk" \o ToString(p)

DocumentsOf(n) == [p \in Pos(n) |-> [text |-> TextOf(p), metadata |-> MetaOf(p)]]

\* HybridRetriever.__init__ over files that agree on the chunk count.
Loaded(n) ==
    [loaded |-> TRUE, documents |-> DocumentsOf(n), ntotal |-> n, bm25_size |-> n]

\* The value of the global retriever before the first request and after a
\* reload; references into heap are 1, 2, ...
None == 0

NoCall == [top_n |-> 0]
NoOutcome == [status |-> "none"]

\* No database, no files: the single-call specifications start from a loaded
\* instance.
NoFile == [exists |-> FALSE, items |-> <<>>]
NoFiles == [vector_db |-> NoFile, faiss |-> NoFile, bm25 |-> NoFile, meta |-> NoFile]

Init ==
    /\ inst = Loaded(NumDocs)
    /\ pc = "idle"
    /\ call = NoCall
    /\ outcome = NoOutcome
    /\ db = [rows |-> <<>>, next_id |-> 1]
    /\ files = NoFiles
    /\ run = "idle"
    /\ retriever = None
    /\ heap = <<>>
    /\ thr = <<>>

\* A caller picks a query and the arguments of its call.  The query is known
\* by the scores the two indexes give it: dense[p] and lex[p] for position p.
Request ==
    /\ pc = "idle"
    /\ \E q \in [Pos(MaxOf(inst.ntotal, inst.bm25_size)) -> QueryScores],
          top_n \in 0 .. MaxTopN,
          a \in CallArgs :
            call' = [dense |-> [p \in Pos(inst.ntotal) |-> q[p][1]],
                     lex |-> [p \in Pos(inst.bm25_size) |-> q[p][2]],
                     top_n |-> top_n,
                     metadata_filter |-> a.metadata_filter,
                     vector_k |-> a.vector_k, bm25_k |-> a.bm25_k,
                     alpha |-> a.alpha]
    /\ pc' = "called"
    /\ UNCHANGED <<inst, outcome>>
    /\ UNCHANGED <<buildVars, serverVars>>

\* retrieve runs to its end.
Call ==
    /\ pc = "called"
    /\ \E out \in retrieve(inst, call.dense, call.lex, call.top_n,
                           call.metadata_filter, call.vector_k, call.bm25_k,
                           call.alpha) :
            /\ outcome' = [status |-> out.status, results |-> out.results,
                           vector_scores_raw |-> out.vector_scores_raw,
                           lexical_scores_raw |-> out.lexical_scores_raw,
                           candidates |-> out.candidates,
                           fallback |-> out.fallback,
                           appended |-> out.appended]
            /\ inst' = [inst EXCEPT !.documents = out.documents]
    /\ pc' = "done"
    /\ UNCHANGED call
    /\ UNCHANGED <<buildVars, serverVars>>

\* The caller drops the list; the next call starts.
Return ==
    /\ pc = "done"
    /\ pc' = "idle"
    /\ call' = NoCall
    /\ outcome' = NoOutcome
    /\ UNCHANGED inst
    /\ UNCHANGED <<buildVars, serverVars>>

Next == Request \/ Call \/ Return

Spec == Init /\ [][Next]_vars

---------------------------------------------------------------------------
(* The build specification: enhanced_ingest.main writes the files, the
   server loads them, a caller retrieves *)

\* Bounds of the model.
MaxChunks == 3

\* The widths of the embedding models chunks are ingested with
\* (--embed-model): a stored embedding has as many float32 as its model gives.
EmbedDims == {2, 3}

\* What the embedding column of a row holds: a blob of n float32
\* (ndarray.tobytes()), NULL, or a text of a JSON list of n numbers (n < 0:
\* a text that is not JSON).
Blob(n) == [enc |-> "blob", n |-> n]
Null == [enc |-> "null", n |-> 0]
Text(n) == [enc |-> "text", n |-> n]

\* What build_faiss_index_from_db accepts besides: a list of n floats, and
\* the two-dimensional values, a list holding one list of n floats and the
\* JSON text of such a list.
List(n) == [enc |-> "list", n |-> n]
List2(n) == [enc |-> "list2", n |-> n]
Text2(n) == [enc |-> "text2", n |-> n]

\* What process_pdf_file stores: np.array(embedding, dtype=np.float32).
StoredEmbeddings == {Blob(n) : n \in EmbedDims}

\* database_manager.py: SELECT ... ORDER BY c.created_at DESC.  db.rows is
\* kept newest first, so the query is the stored order.
get_rag_chunks_by_classification(d) == d.rows

\* export_to_vector_db: np.frombuffer raises on a value that is not
\* bytes-like, before anything is written; else one item per chunk, in order.
export_to_vector_db(chunks) ==
    [raised |-> \E i \in DOMAIN chunks : chunks[i].embedding.enc # "blob",
     items |-> [i \in DOMAIN chunks |-> chunks[i].id]]

\* Lines 163-210 of build_faiss_index_from_db, for one chunk: the embedding
\* is appended ("valid", with its shape[0]), counted in bad_count ("bad"), or
\* passed over by the bare continue of the text case ("skipped").
ParseEmbedding(raw_emb) ==
    CASE raw_emb.enc = "null" -> [kind |-> "bad", dim |-> 0]
      [] raw_emb.enc = "list" ->
            IF raw_emb.n = 0
            THEN [kind |-> "bad", dim |-> 0]
            ELSE [kind |-> "valid", dim |-> raw_emb.n]
      [] raw_emb.enc \in {"list2", "text2"} -> [kind |-> "bad", dim |-> 0]
      [] raw_emb.enc = "blob" ->
            IF raw_emb.n = 0
            THEN [kind |-> "bad", dim |-> 0]
            ELSE [kind |-> "valid", dim |-> raw_emb.n]
      [] raw_emb.enc = "text" ->
            IF raw_emb.n < 0
            THEN [kind |-> "skipped", dim |-> 0]
            ELSE IF raw_emb.n = 0
                 THEN [kind |-> "bad", dim |-> 0]
                 ELSE [kind |-> "valid", dim |-> raw_emb.n]

\* Mutant: the dimension of the first valid embedding is kept.
FirstDim(dims) == dims[1]

\* Counter(dims).most_common(1)[0][0]: the most frequent dimension, the one
\* met first among equally frequent ones.
MostCommonDim(dims) ==
    LET Count(d) == Cardinality({i \in DOMAIN dims : dims[i] = d})
        First(d) == CHOOSE i \in DOMAIN dims :
                        dims[i] = d /\ \A j \in 1 .. (i - 1) : dims[j] # d
        seen == {dims[i] : i \in DOMAIN dims}
    IN  CHOOSE d \in seen :
            \A e \in seen :
                \/ Count(d) > Count(e)
                \/ (Count(d) = Count(e) /\ First(d) <= First(e))

\* build_faiss_index_from_db: whether the index file is written, the chunk
\* whose embedding each position of the index holds, and bad_count.  Every
\* path ends in a bare return after a print or at the end of the body: the
\* caller gets None and no exception (raised is FALSE) whether or not an index
\* was written.
build_faiss_index_from_db(chunks) ==
    LET parsed == [i \in DOMAIN chunks |-> ParseEmbedding(chunks[i].embedding)]
        valid == SelectSeq([i \in DOMAIN chunks |->
                               [id |-> chunks[i].id, parsed |-> parsed[i]]],
                           LAMBDA c : c.parsed.kind = "valid")
        dims == [i \in DOMAIN valid |-> valid[i].parsed.dim]
        bad_count == Cardinality({i \in DOMAIN chunks : parsed[i].kind = "bad"})
        kept == IF Cardinality({dims[i] : i \in DOMAIN dims}) > 1
                THEN SelectSeq(valid, LAMBDA c : c.parsed.dim = MostCommonDim(dims))
                ELSE valid
    IN  IF chunks = <<>> \/ valid = <<>>
        THEN [written |-> FALSE, items |-> <<>>, bad_count |-> bad_count,
              raised |-> FALSE]
        ELSE [written |-> TRUE,
              items |-> [i \in DOMAIN kept |-> kept[i].id],
              bad_count |-> bad_count,
              raised |-> FALSE]

\* build_bm25_index_from_db: every chunk is tokenized, in order; nothing is
\* written when there is no chunk.
build_bm25_index_from_db(chunks) ==
    [written |-> chunks # <<>>,
     items |-> [i \in DOMAIN chunks |-> chunks[i].id]]

\* The metadata export_to_vector_db writes for chunk id (one file per chunk).
ExportedMeta(id) ==
    [k \in {"doc_id", "doc_label", "chunk_id", "page", "chunk_index", "matiere",
            "sous_matiere", "enseignant", "semestre", "promo", "filename"} |->
        CASE k = "doc_id" -> Str("math-cours" \o ToString(id))
          [] k = "doc_label" -> Str("cours" \o ToString(id))
          [] k = "chunk_id" -> Str("math-cours" \o ToString(id) \o ":1:0")
          [] k = "page" -> Int_(1)
          [] k = "chunk_index" -> Int_(0)
          [] k = "matiere" -> Str("math")
          [] k = "sous_matiere" -> Str("algebre")
          [] k = "enseignant" -> Str("Dupont")
          [] k = "semestre" -> Str("S1")
          [] k = "promo" -> Str("2025")
          [] k = "filename" -> Str("cours" \o ToString(id) \o ".pdf")]

NotLoaded == [loaded |-> FALSE, documents |-> <<>>, ntotal |-> 0, bm25_size |-> 0]

\* HybridRetriever.__init__: _load_documents, _load_faiss_index (a count that
\* differs from len(documents) is a warning on stderr), _load_bm25.  A missing
\* file is SystemExit: no instance.
HybridRetriever(f) ==
    IF f.vector_db.exists /\ f.faiss.exists /\ f.bm25.exists
    THEN [loaded |-> TRUE,
          documents |-> [p \in Pos(Len(f.vector_db.items)) |->
                            [text |-> TextOf(f.vector_db.items[p + 1]),
                             metadata |-> ExportedMeta(f.vector_db.items[p + 1])]],
          ntotal |-> Len(f.faiss.items),
          bm25_size |-> Len(f.bm25.items)]
    ELSE NotLoaded

\* rag_core.py line 25, and a model an operator may name instead.  "None" is
\* Python's None: no model named, none recorded.
DEFAULT_EMBEDDING_MODEL == "hf.co/CompendiumLabs/bge-base-en-v1.5-gguf"
OtherModel == "nomic-embed-text"

\* _load_meta, lines 154-158, then meta.get('embedding_model'): the model the
\* metadata file records, None when the file is absent or records none.
RecordedModel(meta) ==
    IF meta.exists /\ "embedding_model" \in DOMAIN meta
    THEN meta.embedding_model
    ELSE "None"

\* Lines 104-108: embedding_model or self.meta.get('embedding_model') or
\* DEFAULT_EMBEDDING_MODEL.
EmbeddingModelOf(embedding_model, meta) ==
    IF embedding_model # "None"
    THEN embedding_model
    ELSE IF RecordedModel(meta) # "None"
         THEN RecordedModel(meta)
         ELSE DEFAULT_EMBEDDING_MODEL

\* The path the SystemExit of a failed construction names: the first absent
\* file in the order __init__ loads them (lines 98-100).  _load_meta does not
\* exit: an absent index_meta.json is the empty mapping (lines 155-156).
MissingPath(f) ==
    CASE ~f.vector_db.exists -> "vector_db"
      [] f.vector_db.exists /\ ~f.faiss.exists -> "faiss"
      [] f.vector_db.exists /\ f.faiss.exists /\ ~f.bm25.exists -> "bm25"
      [] OTHER -> "none"

\* What the caller of HybridRetriever() gets: the instance, with the model
\* its queries will be embedded with, or SystemExit with a message that names
\* a path.
Constructed(f) ==
    IF MissingPath(f) = "none"
    THEN [status |-> "loaded", embedding_model |-> EmbeddingModelOf("None", f.meta)]
    ELSE [status |-> "SystemExit", path |-> MissingPath(f)]

\* The scores of the queries asked in this specification.
BuildScores == {<<Rat(9, 10), Rat(1, 10)>>, <<Rat(1, 10), Rat(8, 10)>>}

InitBuild ==
    /\ inst = NotLoaded
    /\ pc = "idle"
    /\ call = NoCall
    /\ outcome = NoOutcome
    /\ db = [rows |-> <<>>, next_id |-> 1]
    /\ files = NoFiles
    /\ run = "idle"
    /\ retriever = None
    /\ heap = <<>>
    /\ thr = <<>>

\* main, lines 303-346: process_pdf_file embeds a PDF of one chunk with the
\* model of this run and add_rag_chunks stores it; the row is the newest.
Ingest ==
    /\ run = "idle"
    /\ pc = "idle"
    /\ db.next_id <= MaxChunks
    /\ \E e \in StoredEmbeddings :
          db' = [rows |-> <<[id |-> db.next_id, embedding |-> e]>> \o db.rows,
                 next_id |-> db.next_id + 1]
    /\ run' = "export"
    /\ UNCHANGED <<files, retrVars, serverVars>>

\* main --export-only: no PDF is processed.
ExportOnly ==
    /\ run = "idle"
    /\ pc = "idle"
    /\ run' = "export"
    /\ UNCHANGED <<db, files, retrVars, serverVars>>

\* file_manager_rag.py: delete_file removes a file and its chunks.
DeleteFile ==
    /\ run = "idle"
    /\ pc = "idle"
    /\ \E i \in DOMAIN db.rows :
          db' = [db EXCEPT !.rows = SubSeq(db.rows, 1, i - 1)
                                    \o SubSeq(db.rows, i + 1, Len(db.rows))]
    /\ UNCHANGED <<files, run, retrVars, serverVars>>

\* main, line 350.  An exception ends the run.
Export ==
    /\ run = "export"
    /\ LET out == export_to_vector_db(get_rag_chunks_by_classification(db))
       IN  IF out.raised
           THEN run' = "idle" /\ UNCHANGED files
           ELSE /\ files' = [files EXCEPT
                                !.vector_db = [exists |-> TRUE, items |-> out.items]]
                /\ run' = "faiss"
    /\ UNCHANGED <<db, retrVars, serverVars>>

\* main, line 354.
BuildFaiss ==
    /\ run = "faiss"
    /\ LET out == build_faiss_index_from_db(get_rag_chunks_by_classification(db))
       IN  files' = IF out.written
                    THEN [files EXCEPT !.faiss = [exists |-> TRUE, items |-> out.items]]
                    ELSE files
    /\ run' = "bm25"
    /\ UNCHANGED <<db, retrVars, serverVars>>

\* main, line 357.
BuildBm25 ==
    /\ run = "bm25"
    /\ LET out == build_bm25_index_from_db(get_rag_chunks_by_classification(db))
       IN  files' = IF out.written
                    THEN [files EXCEPT !.bm25 = [exists |-> TRUE, items |-> out.items]]
                    ELSE files
    /\ run' = "meta"
    /\ UNCHANGED <<db, retrVars, serverVars>>

\* main, lines 360-361: save_meta with the chunk count and the run's
\* --embed-model (the default or a model named on the command line; nothing
\* else in the run depends on its name); the run is over.
SaveMeta ==
    /\ run = "meta"
    /\ \E embed_model \in {DEFAULT_EMBEDDING_MODEL, OtherModel} :
          files' = [files EXCEPT
                       !.meta = [exists |-> TRUE,
                                 items |-> <<Len(get_rag_chunks_by_classification(db))>>,
                                 embedding_model |-> embed_model]]
    /\ run' = "idle"
    /\ UNCHANGED <<db, retrVars, serverVars>>

\* The server constructs its retriever from the files on disk.
Load ==
    /\ run = "idle"
    /\ pc = "idle"
    /\ inst' = HybridRetriever(files)
    /\ outcome' = Constructed(files)
    /\ UNCHANGED <<pc, call, buildVars, serverVars>>

\* A caller asks the loaded instance with the defaults of retrieve's
\* signature: top_n 3, no filter, vector_k 20, bm25_k 40, alpha 0.65.
RequestDefault ==
    /\ run = "idle"
    /\ pc = "idle"
    /\ inst.loaded
    /\ \E q \in [Pos(MaxOf(inst.ntotal, inst.bm25_size)) -> BuildScores] :
          call' = [dense |-> [p \in Pos(inst.ntotal) |-> q[p][1]],
                   lex |-> [p \in Pos(inst.bm25_size) |-> q[p][2]],
                   top_n |-> 3,
                   metadata_filter |-> EmptyDict,
                   vector_k |-> 20, bm25_k |-> 40,
                   alpha |-> Rat(13, 20)]
    /\ pc' = "called"
    /\ UNCHANGED <<inst, outcome, buildVars, serverVars>>

NextBuild ==
    \/ Ingest
    \/ ExportOnly
    \/ DeleteFile
    \/ Export
    \/ BuildFaiss
    \/ BuildBm25
    \/ SaveMeta
    \/ Load
    \/ RequestDefault
    \/ Call
    \/ Return

SpecBuild == InitBuild /\ [][NextBuild]_vars

---------------------------------------------------------------------------
(* The dense-build specification: build_faiss_index_from_db over chunk lists
   of mixed encodings *)

\* Bounds of the model.
MaxEntries == 3

\* The embeddings of the chunk lists: missing, lists, byte buffers and JSON
\* texts; of two widths, empty, two-dimensional, not JSON.
FaissInputs ==
    {Null, List(2), List(3), List(0), List2(2), Blob(2), Blob(3), Blob(0),
     Text(2), Text(0), Text(-1), Text2(2)}

InitFaiss ==
    /\ \E n \in 0 .. MaxEntries :
       \E embs \in [1 .. n -> FaissInputs] :
          db = [rows |-> [i \in 1 .. n |-> [id |-> i, embedding |-> embs[i]]],
                next_id |-> n + 1]
    /\ files = NoFiles
    /\ run = "idle"
    /\ inst = NotLoaded
    /\ pc = "idle"
    /\ call = NoCall
    /\ outcome = NoOutcome
    /\ retriever = None
    /\ heap = <<>>
    /\ thr = <<>>

\* build_faiss_index_from_db is called on the database; line 240 prints the
\* size of the index written and bad_count.
CallBuildFaiss ==
    /\ run = "idle"
    /\ pc = "idle"
    /\ LET out == build_faiss_index_from_db(get_rag_chunks_by_classification(db))
       IN  /\ files' = IF out.written
                        THEN [files EXCEPT !.faiss = [exists |-> TRUE, items |-> out.items]]
                        ELSE files
           /\ outcome' = [status |-> IF out.written THEN "built" ELSE "not built",
                          ntotal |-> Len(out.items),
                          bad_count |-> out.bad_count,
                          raised |-> out.raised]
    /\ pc' = "done"
    /\ UNCHANGED <<inst, call, db, run, serverVars>>

NextFaiss == CallBuildFaiss \/ Return

SpecFaiss == InitFaiss /\ [][NextFaiss]_vars

---------------------------------------------------------------------------
(* The load specification: HybridRetriever is constructed over any set of
   files present and absent *)

\* vector_db.json absent, empty, or holding chunks 1 or 2 and 1.
ChunkFiles ==
    {NoFile} \cup {[exists |-> TRUE, items |-> s] : s \in {<<>>, <<1>>, <<2, 1>>}}

\* An index file absent or built over chunks 1 or 2 and 1 (the builders write
\* no empty index).
IndexFiles ==
    {NoFile} \cup {[exists |-> TRUE, items |-> s] : s \in {<<1>>, <<2, 1>>}}

\* index_meta.json absent, or recording a chunk count and the model of the
\* build, or a chunk count only.
MetaFiles ==
    {NoFile}
    \cup {[exists |-> TRUE, items |-> <<n>>, embedding_model |-> e] :
             n \in {1, 2}, e \in {DEFAULT_EMBEDDING_MODEL, OtherModel}}
    \cup {[exists |-> TRUE, items |-> <<n>>] : n \in {1, 2}}

InitLoad ==
    /\ \E v \in ChunkFiles, f \in IndexFiles, b \in IndexFiles, m \in MetaFiles :
          files = [vector_db |-> v, faiss |-> f, bm25 |-> b, meta |-> m]
    /\ db = [rows |-> <<>>, next_id |-> 1]
    /\ run = "idle"
    /\ inst = NotLoaded
    /\ pc = "idle"
    /\ call = NoCall
    /\ outcome = NoOutcome
    /\ retriever = None
    /\ heap = <<>>
    /\ thr = <<>>

NextLoad == Load

SpecLoad == InitLoad /\ [][NextLoad]_vars

---------------------------------------------------------------------------
(* The identifier specification: _ensure_identifiers over metadata mappings
   with identifier fields present, empty, null and absent *)

\* For each key, the values a mapping may hold under it; Absent stands for a
\* mapping without the key.
Absent == <<"absent">>

IdentValues ==
    [doc_id |-> {Absent, Missing, Str("d0")},
     doc_label |-> {Absent, Str("Cours 0")},
     page |-> {Absent, Int_(1)},
     chunk_index |-> {Absent, Int_(2), Str("7"), Str("x"), Num(Rat(3, 2))},
     matiere |-> {Absent, Str("math"), Str("phys")}]

\* The mappings drawn: chunk_id is present exactly when page is.
IdentMetas ==
    {LET keys == {k \in DOMAIN c : c[k] # Absent}
     IN  [k \in keys \cup (IF "page" \in keys THEN {"chunk_id"} ELSE {}) |->
             IF k = "chunk_id" THEN Str("d0:1:2") ELSE c[k]]
     : c \in {c \in [DOMAIN IdentValues -> UNION {IdentValues[k] : k \in DOMAIN IdentValues}] :
                 \A k \in DOMAIN IdentValues : c[k] \in IdentValues[k]}}

IdentTexts == {"chunk0", "chunk1"}

InitIdent ==
    /\ outcome = [status |-> "none", calls |-> <<>>]
    /\ pc = "idle"
    /\ call = NoCall
    /\ inst = NotLoaded
    /\ db = [rows |-> <<>>, next_id |-> 1]
    /\ files = NoFiles
    /\ run = "idle"
    /\ retriever = None
    /\ heap = <<>>
    /\ thr = <<>>

\* One call of _ensure_identifiers, recorded with its arguments.
Normalized(metadata, chunk) ==
    [metadata |-> metadata, chunk |-> chunk,
     result |-> _ensure_identifiers(metadata, chunk)]

\* A first call.
EnsureFirst ==
    /\ outcome.status = "none"
    /\ \E m \in IdentMetas, c \in IdentTexts :
          outcome' = [status |-> "one", calls |-> <<Normalized(m, c)>>]
    /\ UNCHANGED <<inst, pc, call, buildVars, serverVars>>

\* A second call, after the first.
EnsureSecond ==
    /\ outcome.status = "one"
    /\ \E m \in IdentMetas, c \in IdentTexts :
          outcome' = [status |-> "two", calls |-> Append(outcome.calls, Normalized(m, c))]
    /\ UNCHANGED <<inst, pc, call, buildVars, serverVars>>

\* Both results are dropped.
Forget ==
    /\ outcome.status = "two"
    /\ outcome' = [status |-> "none", calls |-> <<>>]
    /\ UNCHANGED <<inst, pc, call, buildVars, serverVars>>

NextIdent == EnsureFirst \/ EnsureSecond \/ Forget

SpecIdent == InitIdent /\ [][NextIdent]_vars

---------------------------------------------------------------------------
(* The question specification: ask_question from the query text to the
   response, with the embedder and the generator as external services *)

\* Bounds of the model.
AskDocs == 2

\* Vectors are tuples of rationals.
Vec(a, b) == <<Rat(a, 1), Rat(b, 1)>>
ZerosLike(v) == [i \in DOMAIN v |-> Zero]

RECURSIVE RSum(_)
RSum(s) == IF s = <<>> THEN Zero ELSE RAdd(Head(s), RSum(Tail(s)))

Dot(u, v) == RSum([i \in DOMAIN u |-> RMul(u[i], v[i])])

\* np.linalg.norm, for the vectors of the model (their squared length is the
\* square of a whole number up to 5).
Norm(v) ==
    LET sq == Dot(v, v)
    IN  Rat(CHOOSE n \in 0 .. 5 : n * n = sq[1], 1)

\* faiss.normalize_L2 at build time: the stored vector of position p.
DocVec(p) ==
    LET raw == IF p % 2 = 0 THEN Vec(1, 0) ELSE Vec(3, 4)
    IN  [i \in DOMAIN raw |-> RDiv(raw[i], Norm(raw))]

\* What ollama.embed answers to one invocation: an exception, or a vector of
\* the index's width (of zero length among them).
EmbedError == [kind |-> "error", vec |-> <<>>]
Embedding(v) == [kind |-> "vector", vec |-> v]
EmbedResponses ==
    {EmbedError, Embedding(Vec(0, 0)), Embedding(Vec(1, 0)), Embedding(Vec(3, 4)),
     Embedding(Vec(4, 3))}

\* Mutant: a failed embedding call is made again.
_prepare_query_embedding_retry(responses) ==
    LET r == IF responses[1].kind = "error" THEN responses[2] ELSE responses[1]
        calls == IF responses[1].kind = "error" THEN 2 ELSE 1
    IN  IF r.kind = "error"
        THEN [raised |-> TRUE, calls |-> calls, vec |-> <<>>]
        ELSE [raised |-> FALSE, calls |-> calls,
              vec |-> IF RLt(Zero, Norm(r.vec))
                      THEN [i \in DOMAIN r.vec |-> RDiv(r.vec[i], Norm(r.vec))]
                      ELSE ZerosLike(r.vec)]

\* Lines 160-168.  responses[i] is what the embedder answers to its i-th
\* invocation; the code invokes it once and lets its exception pass.
_prepare_query_embedding(responses) ==
    LET r == responses[1]
    IN  IF r.kind = "error"
        THEN [raised |-> TRUE, calls |-> 1, vec |-> <<>>]
        ELSE [raised |-> FALSE, calls |-> 1,
              vec |-> IF RLt(Zero, Norm(r.vec))
                      THEN [i \in DOMAIN r.vec |-> RDiv(r.vec[i], Norm(r.vec))]
                      ELSE ZerosLike(r.vec)]

\* Lines 29-31, re.findall(r"\b\w+\b", text.lower()), on the texts of the
\* model; a stored text chunkN is one word.
tokenize(text) ==
    CASE text = "" -> <<>>
      [] text = "?!" -> <<>>
      [] text = "chunk0 chunk1 ?" -> <<"chunk0", "chunk1">>
      [] OTHER -> <<text>>

\* text.lower().split() on the texts of the model.
LowerSplit(text) ==
    CASE text = "" -> <<>>
      [] text = "?!" -> <<"?!">>
      [] text = "chunk0 chunk1 ?" -> <<"chunk0", "chunk1", "?">>
      [] OTHER -> <<text>>

\* Mutant: no fallback to the whitespace split.
QueryTokensNoFallback(query) == tokenize(query)

\* Line 194: tokenize(query) or query.lower().split().
QueryTokens(query) ==
    IF tokenize(query) # <<>> THEN tokenize(query) ELSE LowerSplit(query)

\* BM25Okapi.get_scores(tokens)[p]: each query token found in the tokens of
\* chunk p adds a positive weight; no token, no score.
Bm25Weight == Rat(4, 5)
Bm25Score(tokens, text) ==
    RSum([i \in DOMAIN tokens |->
             IF \E j \in DOMAIN tokenize(text) : tokenize(text)[j] = tokens[i]
             THEN Bm25Weight ELSE Zero])

\* retrieve, lines 170-242, from the query text: every outcome of one call.
retrieve_text(self, query, responses, top_n, metadata_filter, vector_k, bm25_k, alpha) ==
    LET e == _prepare_query_embedding(responses)
        tokens == QueryTokens(query)
    IN  IF e.raised
        THEN {[status |-> "embed_error", results |-> <<>>,
               vector_scores_raw |-> EmptyDict, lexical_scores_raw |-> EmptyDict,
               documents |-> self.documents,
               embed_calls |-> e.calls, query_vec |-> e.vec, tokens |-> <<>>]}
        ELSE {[status |-> o.status, results |-> o.results,
               vector_scores_raw |-> o.vector_scores_raw,
               lexical_scores_raw |-> o.lexical_scores_raw,
               documents |-> o.documents,
               embed_calls |-> e.calls, query_vec |-> e.vec, tokens |-> tokens]
              : o \in retrieve(self,
                               [p \in Pos(self.ntotal) |-> Dot(e.vec, DocVec(p))],
                               [p \in Pos(self.bm25_size) |->
                                   Bm25Score(tokens, self.documents[p].text)],
                               top_n, metadata_filter, vector_k, bm25_k, alpha)}

\* The question texts: a word of a chunk, words of two chunks with
\* punctuation, punctuation only, nothing.
AskQueries == {"chunk0", "chunk0 chunk1 ?", "?!", ""}

\* QueryRequest.threshold, default 0.35; the thresholds requests carry: the
\* default and 1.0, which a query equal to a stored vector just reaches.
Threshold == Rat(7, 20)
Thresholds == {Threshold, One}

\* format_response: one source per retrieved chunk, in list order, with its
\* chunk_id and its text.
Sources(retrieved) ==
    [i \in DOMAIN retrieved |->
        [chunk_id |-> retrieved[i].meta["chunk_id"], fragment |-> retrieved[i].text]]

\* Line 156: max of the vector_score of the returned entries, default 0.0.
BestVector(retrieved) ==
    IF retrieved = <<>>
    THEN Zero
    ELSE RMax({<<retrieved[i].meta["vector_score"][2],
                 retrieved[i].meta["vector_score"][3]>>
               : i \in DOMAIN retrieved})

\* Mutant: a best score equal to the threshold counts as below it.
AnswerBelowOrEqual(retrieved, threshold, chat_ok) ==
    IF RLeq(BestVector(retrieved), threshold)
    THEN [code |-> 200, answer |-> "not found", chat_calls |-> 0,
          sources |-> Sources(retrieved)]
    ELSE IF chat_ok
         THEN [code |-> 200, answer |-> "generated", chat_calls |-> 1,
               sources |-> Sources(retrieved)]
         ELSE [code |-> 500, answer |-> "none", chat_calls |-> 1, sources |-> <<>>]

\* Lines 156-180 of ask_question after retrieve returned the list retrieved:
\* the response with the fixed answer below the threshold, else the response
\* with the generator's answer, or HTTPException(500) when ollama.chat raises.
Answer(retrieved, threshold, chat_ok) ==
    IF RLt(BestVector(retrieved), threshold)
    THEN [code |-> 200, answer |-> "not found", chat_calls |-> 0,
          sources |-> Sources(retrieved)]
    ELSE IF chat_ok
         THEN [code |-> 200, answer |-> "generated", chat_calls |-> 1,
               sources |-> Sources(retrieved)]
         ELSE [code |-> 500, answer |-> "none", chat_calls |-> 1, sources |-> <<>>]

InitAsk ==
    /\ inst = Loaded(AskDocs)
    /\ pc = "idle"
    /\ call = NoCall
    /\ outcome = NoOutcome
    /\ db = [rows |-> <<>>, next_id |-> 1]
    /\ files = NoFiles
    /\ run = "idle"
    /\ retriever = None
    /\ heap = <<>>
    /\ thr = <<>>

\* POST /api/ask: a question with the defaults of QueryRequest, or top_n 1,
\* or threshold 1.0.
\* What the embedder and the generator will answer is fixed with the request.
AskRequest ==
    /\ pc = "idle"
    /\ \E q \in AskQueries, r1 \in EmbedResponses,
          r2 \in {EmbedError, Embedding(Vec(1, 0))},
          chat_ok \in BOOLEAN, top_n \in {1, 3}, threshold \in Thresholds :
          call' = [question |-> q, responses |-> <<r1, r2>>, chat_ok |-> chat_ok,
                   top_n |-> top_n, threshold |-> threshold,
                   metadata_filter |-> EmptyDict,
                   vector_k |-> 20, bm25_k |-> 40, alpha |-> Rat(13, 20)]
    /\ pc' = "retrieve"
    /\ UNCHANGED <<inst, outcome, buildVars, serverVars>>

\* No response yet; the response to a request whose handler raised.
NoResponse == [code |-> 0, answer |-> "none", chat_calls |-> 0, sources |-> <<>>]
ServerError == [code |-> 500, answer |-> "none", chat_calls |-> 0, sources |-> <<>>]

\* Lines 147-154: retr.retrieve(...) returns, or raises and the request ends
\* with the exception.
AskRetrieve ==
    /\ pc = "retrieve"
    /\ \E o \in retrieve_text(inst, call.question, call.responses, call.top_n,
                              call.metadata_filter, call.vector_k, call.bm25_k,
                              call.alpha) :
          /\ outcome' = [status |-> o.status, results |-> o.results,
                         vector_scores_raw |-> o.vector_scores_raw,
                         lexical_scores_raw |-> o.lexical_scores_raw,
                         embed_calls |-> o.embed_calls,
                         query_vec |-> o.query_vec, tokens |-> o.tokens,
                         response |-> IF o.status = "returned"
                                      THEN NoResponse ELSE ServerError]
          /\ inst' = [inst EXCEPT !.documents = o.documents]
          /\ pc' = IF o.status = "returned" THEN "generate" ELSE "done"
    /\ UNCHANGED <<call, buildVars, serverVars>>

\* Lines 156-180: the threshold test, the generator call, the response.
AskGenerate ==
    /\ pc = "generate"
    /\ outcome' = [outcome EXCEPT !.response = Answer(outcome.results, call.threshold, call.chat_ok)]
    /\ pc' = "done"
    /\ UNCHANGED <<inst, call, buildVars, serverVars>>

NextAsk == AskRequest \/ AskRetrieve \/ AskGenerate \/ Return

SpecAsk == InitAsk /\ [][NextAsk]_vars

----------------------------------------------------------------------------
(* The ingestion specification: rag0/ingest_pdf.py, its module-level lists
   and the calls that fill them *)

\* Bounds of the model: VECTOR_DB never grows past MaxIngest entries, DOC_IDS
\* never past MaxDocIds.
MaxIngest == 2
MaxDocIds == 2

\* TOKEN_PATTERN.findall(text.lower()) on the chunk texts of the model.
ingest_tokenize(text) ==
    CASE text = "Chunk0" -> <<"chunk0">>
      [] text = "chunk0 chunk1 ?" -> <<"chunk0", "chunk1">>
      [] OTHER -> <<text>>

\* The module-level state after main has cleared it.
EmptyGlobals ==
    [VECTOR_DB |-> <<>>, EMBEDDINGS |-> <<>>, BM25_CORPUS |-> <<>>,
     EXISTING_CHUNK_IDS |-> {}, DOC_IDS |-> {}]

\* A PDF is its stem and, per page, the chunks improved_chunk_text cuts from
\* the text of the page.
Pdfs ==
    {[stem |-> "a", pages |-> << <<"Chunk0", "chunk1">> >>],
     [stem |-> "A", pages |-> << <<"chunk1">>, <<"chunk0 chunk1 ?">> >>]}

\* p.stem.lower() with every run of other characters replaced by '-'.
StemBase(stem) == IF stem = "A" THEN "a" ELSE stem

\* The candidates _generate_doc_id tries, in order: base, base-2, base-3, ...
RECURSIVE FreeCandidate(_, _, _)
FreeCandidate(base, suffix, doc_ids) ==
    LET candidate == IF suffix = 1 THEN base
                     ELSE base \o "-" \o ToString(suffix)
    IN  IF candidate \in doc_ids
        THEN FreeCandidate(base, suffix + 1, doc_ids)
        ELSE candidate

_generate_doc_id(stem, doc_ids) == FreeCandidate(StemBase(stem), 1, doc_ids)

\* The metadata parse_pdf is called with: main's base_meta, or a caller's
\* metadata that names the document.
BaseMeta == [matiere |-> Str("maths")]
IngestMetadata == {BaseMeta, Put(BaseMeta, "doc_id", Str("a"))}

\* The (page, idx, chunk) triples of a PDF in the order of the two loops.
RECURSIVE PageChunks(_, _, _)
PageChunks(page_num, chunks, idx) ==
    IF idx >= Len(chunks) THEN <<>>
    ELSE <<[page |-> page_num + 1, idx |-> idx, chunk |-> chunks[idx + 1]]>>
         \o PageChunks(page_num, chunks, idx + 1)

RECURSIVE AllChunks(_, _)
AllChunks(pages, page_num) ==
    IF page_num >= Len(pages) THEN <<>>
    ELSE PageChunks(page_num, pages[page_num + 1], 0)
         \o AllChunks(pages, page_num + 1)

ChunkId(doc_id, page, idx) ==
    doc_id \o ":" \o ToString(page) \o ":" \o ToString(idx)

\* Mutant: the embedding is collected before the duplicate test.
AppendChunkEmbeddingFirst(g, chunk, embedding, meta, chunk_id) ==
    IF chunk_id \in g.EXISTING_CHUNK_IDS
    THEN [g EXCEPT !.EMBEDDINGS = Append(@, embedding)]
    ELSE [g EXCEPT !.VECTOR_DB = Append(@, <<chunk, embedding,
                                             Put(meta, "chunk_id", Str(chunk_id))>>),
                   !.EMBEDDINGS = Append(@, embedding),
                   !.BM25_CORPUS = Append(@, ingest_tokenize(chunk)),
                   !.EXISTING_CHUNK_IDS = @ \cup {chunk_id}]

\* The body of parse_pdf's inner loop after the embedding call: a chunk whose
\* chunk_id exists is skipped, any other is appended to the three lists.
AppendChunk(g, chunk, embedding, meta, chunk_id) ==
    IF chunk_id \in g.EXISTING_CHUNK_IDS
    THEN g
    ELSE [g EXCEPT !.VECTOR_DB = Append(@, <<chunk, embedding,
                                             Put(meta, "chunk_id", Str(chunk_id))>>),
                   !.EMBEDDINGS = Append(@, embedding),
                   !.BM25_CORPUS = Append(@, ingest_tokenize(chunk)),
                   !.EXISTING_CHUNK_IDS = @ \cup {chunk_id}]

\* The two loops of parse_pdf: ollama.embed answers the i-th chunk with
\* responses[i]; an error ends the call with what was appended before it.
RECURSIVE ParseChunks(_, _, _, _, _, _)
ParseChunks(g, todo, responses, doc_id, metadata, skipped) ==
    IF todo = <<>>
    THEN [globals |-> g, raised |-> FALSE, skipped |-> skipped]
    ELSE IF Head(responses).kind = "error"
    THEN [globals |-> g, raised |-> TRUE, skipped |-> skipped]
    ELSE LET c == Head(todo)
             meta == Put(Put(metadata, "page", Int_(c.page)),
                         "chunk_index", Int_(c.idx))
             chunk_id == ChunkId(doc_id, c.page, c.idx)
             dup == chunk_id \in g.EXISTING_CHUNK_IDS
         IN  ParseChunks(AppendChunk(g, c.chunk, Head(responses).vec, meta, chunk_id),
                         Tail(todo), Tail(responses), doc_id, metadata,
                         IF dup THEN skipped + 1 ELSE skipped)

parse_pdf(g, pdf, metadata, responses) ==
    LET given == Get(metadata, "doc_id", Missing)
        label == Get(metadata, "doc_label", Missing)
        doc_label == IF Truthy(label) THEN label ELSE Str(pdf.stem)
        doc_id == IF Truthy(given) THEN given[2]
                  ELSE _generate_doc_id(pdf.stem, g.DOC_IDS)
        g1 == IF Truthy(given) THEN g
              ELSE [g EXCEPT !.DOC_IDS = @ \cup {doc_id}]
        md == Put(Put(metadata, "doc_id", Str(doc_id)), "doc_label", doc_label)
    IN  ParseChunks(g1, AllChunks(pdf.pages, 0), responses, doc_id, md, 0)

\* One item of the JSON database, as save_db writes it.
Item(text, embedding, metadata) ==
    [text |-> text, embedding |-> embedding, metadata |-> metadata]

\* metadata as parse_pdf stores it for chunk idx of page 1 of document "a".
StoredMeta(idx) ==
    [matiere |-> Str("maths"), doc_id |-> Str("a"), doc_label |-> Str("a"),
     page |-> Int_(1), chunk_index |-> Int_(idx),
     chunk_id |-> Str(ChunkId("a", 1, idx))]

\* The output file at the start: absent, written by an earlier run, or a
\* database whose item carries no metadata.
IngestFiles ==
    {NoFile,
     [exists |-> TRUE, items |-> <<Item("Chunk0", Vec(1, 0), StoredMeta(0))>>],
     [exists |-> TRUE, items |-> <<[text |-> "chunk1", embedding |-> Vec(4, 3)]>>]}

\* The loop of load_existing over the items of the file.
RECURSIVE LoadItems(_, _)
LoadItems(g, items) ==
    IF items = <<>> THEN g
    ELSE LET item == Head(items)
             meta == Get(item, "metadata", EmptyDict)
             chunk_id == Get(meta, "chunk_id", Missing)
             doc_id == Get(meta, "doc_id", Missing)
             g1 == [g EXCEPT
                      !.VECTOR_DB = Append(@, <<item.text, item.embedding, meta>>),
                      !.EMBEDDINGS = Append(@, item.embedding),
                      !.BM25_CORPUS = Append(@, ingest_tokenize(item.text)),
                      !.EXISTING_CHUNK_IDS =
                          IF Truthy(chunk_id) THEN @ \cup {chunk_id[2]} ELSE @,
                      !.DOC_IDS =
                          IF Truthy(doc_id) THEN @ \cup {doc_id[2]} ELSE @]
         IN  LoadItems(g1, Tail(items))

load_existing(g, output, append) ==
    IF ~append \/ ~output.exists THEN g ELSE LoadItems(g, output.items)

\* What ollama.embed answers in this specification.
IngestResponses == {EmbedError, Embedding(Vec(1, 0)), Embedding(Vec(3, 4))}

InitIngest ==
    /\ db = EmptyGlobals
    /\ \E f \in IngestFiles : files = [NoFiles EXCEPT !.vector_db = f]
    /\ outcome = [status |-> "none", op |-> "none", skipped |-> 0, added |-> 0]
    /\ run = "idle"
    /\ inst = NotLoaded
    /\ pc = "idle"
    /\ call = NoCall
    /\ retriever = None
    /\ heap = <<>>
    /\ thr = <<>>

\* main, lines 185-189: the five collections are cleared.
ClearGlobals ==
    /\ db # EmptyGlobals
    /\ db' = EmptyGlobals
    /\ outcome' = [status |-> "returned", op |-> "clear", skipped |-> 0, added |-> 0]
    /\ UNCHANGED <<inst, pc, call, files, run, serverVars>>

CallLoadExisting ==
    \E append \in BOOLEAN :
        LET g == load_existing(db, files.vector_db, append)
        IN  /\ Len(g.VECTOR_DB) <= MaxIngest
            /\ db' = g
            /\ outcome' = [status |-> "returned", op |-> "load_existing",
                           skipped |-> 0,
                           added |-> Len(g.VECTOR_DB) - Len(db.VECTOR_DB)]
            /\ UNCHANGED <<inst, pc, call, files, run, serverVars>>

CallParsePdf ==
    \E pdf \in Pdfs, metadata \in IngestMetadata,
       responses \in [1 .. 2 -> IngestResponses] :
        LET out == parse_pdf(db, pdf, metadata, responses)
        IN  /\ Len(out.globals.VECTOR_DB) <= MaxIngest
            /\ Cardinality(out.globals.DOC_IDS) <= MaxDocIds
            /\ db' = out.globals
            /\ outcome' = [status |-> IF out.raised THEN "raised" ELSE "returned",
                           op |-> "parse_pdf", skipped |-> out.skipped,
                           added |-> Len(out.globals.VECTOR_DB) - Len(db.VECTOR_DB)]
            /\ UNCHANGED <<inst, pc, call, files, run, serverVars>>

NextIngest == ClearGlobals \/ CallLoadExisting \/ CallParsePdf

SpecIngest == InitIngest /\ [][NextIngest]_vars

----------------------------------------------------------------------------
(* The event bus specification: frontend/src/lib/message_queue.py, one
   stream and one listener thread started by subscribe *)

\* Bounds of the model: ids published, callback calls recorded, and the
\* count of one xread (10 in the code).
MaxMessages == 3
MaxCalls == 4
ReadCount == 2

\* last_id of subscribe: "0-0", before every id of the stream.
DefaultLastId == 0

\* redis.xread({stream: current_id}, count=ReadCount): the entries after the
\* cursor, oldest first.
xread(entries, current_id) ==
    LET after == SelectSeq(entries, LAMBDA id : id > current_id)
    IN  SubSeq(after, 1, IF Len(after) < ReadCount THEN Len(after) ELSE ReadCount)

NoListener == [pc |-> "none", current_id |-> DefaultLastId, batch |-> <<>>]

\* Mutant: the cursor moves to the message whether or not the callback raised.
AfterCallbackAlwaysAdvance(l, ok) ==
    IF ok
    THEN [pc |-> IF Len(l.batch) > 1 THEN "deliver" ELSE "loop",
          current_id |-> Head(l.batch), batch |-> Tail(l.batch)]
    ELSE [pc |-> "sleep", current_id |-> Head(l.batch), batch |-> <<>>]

\* The listener after callback(message) on the head of its batch: the cursor
\* moves when the callback returned; an exception leaves the loops for the
\* handler, which sleeps.
AfterCallback(l, ok) ==
    IF ok
    THEN [pc |-> IF Len(l.batch) > 1 THEN "deliver" ELSE "loop",
          current_id |-> Head(l.batch), batch |-> Tail(l.batch)]
    ELSE [pc |-> "sleep", current_id |-> l.current_id, batch |-> <<>>]

\* db is the stream (its ids, oldest first), run is self.running, thr the
\* listener thread, heap the calls of the callback so far.
InitBus ==
    /\ db = [entries |-> <<>>, next_id |-> 1]
    /\ run = "running"
    /\ thr = NoListener
    /\ heap = <<>>
    /\ retriever = None
    /\ files = NoFiles
    /\ inst = NotLoaded
    /\ pc = "idle"
    /\ call = NoCall
    /\ outcome = NoOutcome

\* publish: xadd appends the message under a new, larger id.
publish ==
    /\ db.next_id <= MaxMessages
    /\ db' = [entries |-> Append(db.entries, db.next_id),
              next_id |-> db.next_id + 1]
    /\ UNCHANGED <<retrVars, files, run, retriever, heap, thr>>

\* clear_stream: the stream is deleted.
clear_stream ==
    /\ db.entries # <<>>
    /\ db' = [db EXCEPT !.entries = <<>>]
    /\ UNCHANGED <<retrVars, files, run, retriever, heap, thr>>

\* subscribe: the thread starts with current_id = last_id.
subscribe ==
    /\ thr.pc = "none"
    /\ thr' = [pc |-> "loop", current_id |-> DefaultLastId, batch |-> <<>>]
    /\ UNCHANGED <<retrVars, buildVars, retriever, heap>>

\* stop: self.running = False.
stop ==
    /\ run = "running"
    /\ run' = "stopped"
    /\ UNCHANGED <<retrVars, db, files, serverVars>>

\* while self.running
LoopTest ==
    /\ thr.pc = "loop"
    /\ thr' = [thr EXCEPT !.pc = IF run = "running" THEN "read" ELSE "stopped"]
    /\ UNCHANGED <<retrVars, buildVars, retriever, heap>>

\* resp = self.redis.xread(...): messages, none within the block time, or an
\* exception of the connection.
XRead ==
    /\ thr.pc = "read"
    /\ \E fails \in BOOLEAN :
          LET resp == xread(db.entries, thr.current_id)
          IN  thr' = IF fails THEN [thr EXCEPT !.pc = "sleep"]
                     ELSE IF resp = <<>> THEN [thr EXCEPT !.pc = "loop"]
                     ELSE [thr EXCEPT !.pc = "deliver", !.batch = resp]
    /\ UNCHANGED <<retrVars, buildVars, retriever, heap>>

\* callback(message); current_id = message_id
Deliver ==
    /\ thr.pc = "deliver"
    /\ Len(heap) < MaxCalls
    /\ \E ok \in BOOLEAN :
          /\ heap' = Append(heap, [id |-> Head(thr.batch), ok |-> ok,
                                   cursor |-> thr.current_id,
                                   behind |-> {id \in Values(db.entries) :
                                                 id > thr.current_id
                                                 /\ id < Head(thr.batch)}])
          /\ thr' = AfterCallback(thr, ok)
    /\ UNCHANGED <<retrVars, buildVars, retriever>>

\* except Exception: print, time.sleep(1), and the loop goes on.
Sleep ==
    /\ thr.pc = "sleep"
    /\ thr' = [thr EXCEPT !.pc = "loop"]
    /\ UNCHANGED <<retrVars, buildVars, retriever, heap>>

NextBus ==
    \/ publish \/ clear_stream \/ subscribe \/ stop
    \/ LoopTest \/ XRead \/ Deliver \/ Sleep

SpecBus == InitBus /\ [][NextBus]_vars

---------------------------------------------------------------------------
(* The server specification: requests run in the thread pool and share the
   module global retriever *)

\* Bounds of the model.
NumThreads == 2
MaxInstances == 3

Threads == 1 .. NumThreads

\* payload.embed_model: absent (None), the name of another model, or the
\* default model named by the request.
RequestModels == {"None", OtherModel, DEFAULT_EMBEDDING_MODEL}

\* Line 63: the argument ensure_retriever passes to the constructor,
\* embed_model or DEFAULT_EMBEDDING_MODEL.
PassedModel(embed_model) ==
    IF embed_model # "None" THEN embed_model ELSE DEFAULT_EMBEDDING_MODEL

\* A thread that serves no request.
IdleThread == [pc |-> "idle", op |-> "none", embed_model |-> "None", retr |-> None, obj |-> None]

\* The files the server starts beside: those of a build over one chunk, with
\* any of the metadata files.
ServerFiles ==
    {[vector_db |-> f, faiss |-> f, bm25 |-> f, meta |-> m] :
        f \in {[exists |-> TRUE, items |-> <<1>>]},
        m \in {x \in MetaFiles : x.items \in {<<>>, <<1>>}}}

InitServer ==
    /\ retriever = None
    /\ heap = <<>>
    /\ thr = [t \in Threads |-> IdleThread]
    /\ inst = NotLoaded
    /\ pc = "idle"
    /\ call = NoCall
    /\ outcome = NoOutcome
    /\ db = [rows |-> <<>>, next_id |-> 1]
    /\ files \in ServerFiles
    /\ run = "idle"

\* ask_question(payload) or get_metadata() starts on a pool thread and
\* enters ensure_retriever.
StartRequest(t) ==
    /\ thr[t].pc = "idle"
    /\ \E op \in {"ask_question", "get_metadata"} :
       \E m \in RequestModels :
          /\ op = "get_metadata" => m = "None"
          /\ thr' = [thr EXCEPT ![t] = [IdleThread EXCEPT
                                           !.pc = "check", !.op = op, !.embed_model = m]]
    /\ UNCHANGED <<retriever, heap, retrVars, buildVars>>

\* Line 62, left operand: the global is read and compared with None.
CheckNone(t) ==
    /\ thr[t].pc = "check"
    /\ thr' = [thr EXCEPT ![t].pc =
                 IF retriever = None
                 THEN "construct"
                 ELSE IF thr[t].embed_model # "None" THEN "check_model" ELSE "return"]
    /\ UNCHANGED <<retriever, heap, retrVars, buildVars>>

\* Line 62, right operand: the global is read again for .embedding_model;
\* on None the attribute access raises AttributeError.
CheckModel(t) ==
    /\ thr[t].pc = "check_model"
    /\ thr' = [thr EXCEPT ![t].pc =
                 IF retriever = None
                 THEN "failed"
                 ELSE IF heap[retriever].embedding_model # thr[t].embed_model
                      THEN "construct"
                      ELSE "return"]
    /\ UNCHANGED <<retriever, heap, retrVars, buildVars>>

\* Line 63, HybridRetriever(...): a new object whose __init__ has begun; it
\* is referenced by this thread only.
Construct(t) ==
    /\ thr[t].pc = "construct"
    /\ Len(heap) < MaxInstances
    /\ heap' = Append(heap, [loaded |-> FALSE, embedding_model |-> "unset"])
    /\ thr' = [thr EXCEPT ![t].pc = "init", ![t].obj = Len(heap) + 1]
    /\ UNCHANGED <<retriever, retrVars, buildVars>>

\* rag_core.py lines 98-108: __init__ loads the files and sets
\* embedding_model from the argument ensure_retriever passed.
FinishInit(t) ==
    /\ thr[t].pc = "init"
    /\ heap' = [heap EXCEPT ![thr[t].obj] =
                   [loaded |-> TRUE,
                    embedding_model |->
                        EmbeddingModelOf(PassedModel(thr[t].embed_model), files.meta)]]
    /\ thr' = [thr EXCEPT ![t].pc = "store"]
    /\ UNCHANGED <<retriever, retrVars, buildVars>>

\* Line 63, the assignment to the global.
StoreGlobal(t) ==
    /\ thr[t].pc = "store"
    /\ retriever' = thr[t].obj
    /\ thr' = [thr EXCEPT ![t].pc = "return"]
    /\ UNCHANGED <<heap, retrVars, buildVars>>

\* Line 64, return retriever: the global is read once more; the request
\* binds what it finds to its local retr.
ReturnGlobal(t) ==
    /\ thr[t].pc = "return"
    /\ thr' = [thr EXCEPT ![t].pc = "use", ![t].retr = retriever]
    /\ UNCHANGED <<retriever, heap, retrVars, buildVars>>

\* retr.retrieve(...) in ask_question, retr.documents in get_metadata: on
\* None the attribute access raises AttributeError.
Use(t) ==
    /\ thr[t].pc = "use"
    /\ thr' = [thr EXCEPT ![t].pc = IF thr[t].retr = None THEN "failed" ELSE "served"]
    /\ UNCHANGED <<retriever, heap, retrVars, buildVars>>

\* The response is sent (200, or 500 after an exception).
Finish(t) ==
    /\ thr[t].pc \in {"served", "failed"}
    /\ thr' = [thr EXCEPT ![t] = IdleThread]
    /\ UNCHANGED <<retriever, heap, retrVars, buildVars>>

\* reload_data on a pool thread: the global is set to None.
reload_data(t) ==
    /\ thr[t].pc = "idle"
    /\ retriever' = None
    /\ UNCHANGED <<heap, thr, retrVars, buildVars>>

NextServer ==
    \E t \in Threads :
        \/ StartRequest(t)
        \/ CheckNone(t)
        \/ CheckModel(t)
        \/ Construct(t)
        \/ FinishInit(t)
        \/ StoreGlobal(t)
        \/ ReturnGlobal(t)
        \/ Use(t)
        \/ Finish(t)
        \/ reload_data(t)

SpecServer == InitServer /\ [][NextServer]_vars

---------------------------------------------------------------------------
(* The callers specification: retrieve calls run concurrently on one loaded
   instance *)

\* Bounds of the model.
CallerDocs == 2

\* Two calls overlap.
Callers == {1, 2}

CallerScores == {<<Rat(9, 10), Rat(1, 10)>>, <<Rat(5, 10), Rat(8, 10)>>}

CallerArgs == {Args(Rat(1, 2), EmptyDict, 20, 40), Args(Rat(13, 20), MathOf2025, 1, 2)}

CallerTopN == {1, 2}

IdleCaller == [pc |-> "idle", call |-> NoCall, v |-> EmptyDict, l |-> EmptyDict,
               out |-> NoOutcome]

InitCallers ==
    /\ inst = Loaded(CallerDocs)
    /\ thr = [t \in Callers |-> IdleCaller]
    /\ retriever = None
    /\ heap = <<>>
    /\ pc = "idle"
    /\ call = NoCall
    /\ outcome = NoOutcome
    /\ db = [rows |-> <<>>, next_id |-> 1]
    /\ files = NoFiles
    /\ run = "idle"

\* A thread enters retrieve with its query and arguments.
retrieve_enter(t) ==
    /\ thr[t].pc = "idle"
    /\ \E q \in [Pos(CallerDocs) -> CallerScores], top_n \in CallerTopN, a \in CallerArgs :
          thr' = [thr EXCEPT ![t] =
                     [IdleCaller EXCEPT
                         !.pc = "scored",
                         !.call = [dense |-> [p \in Pos(inst.ntotal) |-> q[p][1]],
                                   lex |-> [p \in Pos(inst.bm25_size) |-> q[p][2]],
                                   top_n |-> top_n,
                                   metadata_filter |-> a.metadata_filter,
                                   vector_k |-> a.vector_k, bm25_k |-> a.bm25_k,
                                   alpha |-> a.alpha]]]
    /\ UNCHANGED <<inst, retriever, heap, pc, call, outcome, buildVars>>

\* Lines 181-209: the thread reads the instance and fills its two score maps.
retrieve_search(t) ==
    /\ thr[t].pc = "scored"
    /\ \E v \in DenseMaps(inst, thr[t].call.dense, thr[t].call.metadata_filter,
                          thr[t].call.vector_k),
          l \in LexicalMaps(inst, thr[t].call.lex, thr[t].call.metadata_filter,
                            thr[t].call.bm25_k) :
          thr' = [thr EXCEPT ![t] =
                     IF v.ok /\ l.ok
                     THEN [@ EXCEPT !.pc = "fusing", !.v = v.map, !.l = l.map]
                     ELSE [@ EXCEPT !.pc = "done",
                                    !.out = [status |-> "raised", results |-> <<>>]]]
    /\ UNCHANGED <<inst, retriever, heap, pc, call, outcome, buildVars>>

\* Lines 211-242: the thread reads the instance again, builds and returns its
\* list.
retrieve_fuse(t) ==
    /\ thr[t].pc = "fusing"
    /\ \E out \in Fuse(inst.documents, thr[t].v, thr[t].l, thr[t].call.top_n,
                       thr[t].call.alpha) :
          /\ thr' = [thr EXCEPT ![t].pc = "done",
                                ![t].out = [status |-> out.status,
                                            results |-> out.results]]
          /\ inst' = [inst EXCEPT !.documents = out.documents]
    /\ UNCHANGED <<retriever, heap, pc, call, outcome, buildVars>>

\* The caller drops the list.
retrieve_exit(t) ==
    /\ thr[t].pc = "done"
    /\ thr' = [thr EXCEPT ![t] = IdleCaller]
    /\ UNCHANGED <<inst, retriever, heap, pc, call, outcome, buildVars>>

NextCallers ==
    \E t \in Callers :
        \/ retrieve_enter(t)
        \/ retrieve_search(t)
        \/ retrieve_fuse(t)
        \/ retrieve_exit(t)

SpecCallers == InitCallers /\ [][NextCallers]_vars

---------------------------------------------------------------------------
(* Claims about one retrieve call, checked under Spec *)

Returned == pc = "done" /\ outcome.status = "returned"

\* Min-max scaling as the design states it: (v - min) / (max - min), or 1 for
\* every key when all scores are equal.
MinMax(scores) ==
    [k \in DOMAIN scores |->
        LET lo == RMin(Values(scores))
            hi == RMax(Values(scores))
        IN  IF lo = hi THEN One ELSE RDiv(RSub(scores[k], lo), RSub(hi, lo))]

\* The positions of the returned list, in order.
ResultPositions == [i \in DOMAIN outcome.results |-> outcome.results[i].pos]

\* The call of the design's worked example: three chunks, dense scores
\* 0.9, 0.5, 0.1, lexical scores 0.1, 0.8 and none, alpha 0.5, top_n 2.
ScenarioCall ==
    /\ call.dense = [p \in Pos(3) |-> CASE p = 0 -> Rat(9, 10)
                                        [] p = 1 -> Rat(5, 10)
                                        [] p = 2 -> Rat(1, 10)]
    /\ call.lex = [p \in Pos(3) |-> CASE p = 0 -> Rat(1, 10)
                                      [] p = 1 -> Rat(8, 10)
                                      [] p = 2 -> Zero]
    /\ call.alpha = Rat(1, 2)
    /\ call.top_n = 2
    /\ call.metadata_filter = EmptyDict
    /\ call.vector_k = 20
    /\ call.bm25_k = 40

\* C1: every returned entry's combined score is alpha * nv + (1 - alpha) * nl,
\* with nv and nl the min-max scaled dense and lexical scores of its position
\* over the filtered raw maps, 0 when the position is absent from a map; the
\* worked example returns positions [1, 0] with scores 0.75 and 0.5.
C1_FusionFormula ==
    Returned =>
        LET nv == MinMax(outcome.vector_scores_raw)
            nl == MinMax(outcome.lexical_scores_raw)
        IN  /\ \A i \in DOMAIN outcome.results :
                  LET e == outcome.results[i]
                  IN  /\ e.score = RAdd(RMul(call.alpha, Get(nv, e.pos, Zero)),
                                        RMul(RSub(One, call.alpha), Get(nl, e.pos, Zero)))
                      /\ e.meta["combined_score"] = Num(e.score)
            /\ ScenarioCall =>
                  /\ nv = [p \in Pos(3) |-> CASE p = 0 -> One
                                              [] p = 1 -> Rat(1, 2)
                                              [] p = 2 -> Zero]
                  /\ nl = [p \in {0, 1} |-> IF p = 0 THEN Zero ELSE One]
                  /\ ResultPositions = <<1, 0>>
                  /\ outcome.results[1].score = Rat(3, 4)
                  /\ outcome.results[2].score = Rat(1, 2)

C1_Witness ==
    /\ Returned
    /\ ScenarioCall
    /\ ResultPositions = <<1, 0>>

\* The scores of a raw map are pairwise distinct.
DistinctScores(m) == \A a, b \in DOMAIN m : a # b => m[a] # m[b]

\* The positions of the returned list that are keys of m are in descending
\* order of their raw score in m.
DescendingIn(m) ==
    \A i, j \in DOMAIN outcome.results :
        (i < j /\ outcome.results[i].pos \in DOMAIN m
               /\ outcome.results[j].pos \in DOMAIN m)
            => RLt(m[outcome.results[j].pos], m[outcome.results[i].pos])

\* The keys of m in descending order of score (scores distinct).
RECURSIVE Ranking(_)
Ranking(m) ==
    IF DOMAIN m = {}
    THEN <<>>
    ELSE LET top == CHOOSE a \in DOMAIN m : \A b \in DOMAIN m : RLeq(m[b], m[a])
         IN  <<top>> \o Ranking([k \in (DOMAIN m) \ {top} |-> m[k]])

DistinctCall ==
    /\ Returned
    /\ DistinctScores(outcome.vector_scores_raw)
    /\ DistinctScores(outcome.lexical_scores_raw)

\* C2 as stated: with alpha = 1 the returned positions that have a dense score
\* are in descending dense order; with alpha = 0 the returned list is the
\* first top_n lexical candidates in descending lexical order.
C2_AsStated ==
    DistinctCall =>
        /\ call.alpha = One => DescendingIn(outcome.vector_scores_raw)
        /\ call.alpha = Zero =>
              ResultPositions = Take(Ranking(outcome.lexical_scores_raw), call.top_n)

\* C2, amended: with alpha = 1 the returned positions that have a dense score
\* are in descending dense order; with alpha = 0 the returned positions that
\* have a lexical score are in descending lexical order, and a returned
\* position without a lexical score is followed only by entries of combined
\* score 0 (it ties with the lowest lexical candidate).
C2_FusionExtremes ==
    DistinctCall =>
        /\ call.alpha = One => DescendingIn(outcome.vector_scores_raw)
        /\ call.alpha = Zero =>
              /\ DescendingIn(outcome.lexical_scores_raw)
              /\ \A i, j \in DOMAIN outcome.results :
                    (i < j /\ outcome.results[i].pos \notin DOMAIN outcome.lexical_scores_raw)
                        => outcome.results[j].score = Zero

\* alpha = 0, a dense-only position returned ahead of a lexical candidate.
C2_Witness ==
    /\ DistinctCall
    /\ call.alpha = Zero
    /\ Len(outcome.results) >= 2
    /\ outcome.results[1].pos \in DOMAIN outcome.lexical_scores_raw
    /\ \E i, j \in DOMAIN outcome.results :
          /\ i < j
          /\ outcome.results[i].pos \notin DOMAIN outcome.lexical_scores_raw
          /\ outcome.results[j].pos \in DOMAIN outcome.lexical_scores_raw

\* The stored chunk at position p carries the filter's value for each key.
Admitted(p, filter) ==
    \A k \in DOMAIN filter :
        /\ k \in DOMAIN DocumentsOf(NumDocs)[p].metadata
        /\ DocumentsOf(NumDocs)[p].metadata[k] = filter[k]

\* C3: every returned passage comes from a chunk whose stored metadata equals
\* the filter on every filter key (and carries those values itself); nothing
\* else constrains a chunk: when the dense pool is not cut short, the dense
\* candidates are exactly the chunks the filter admits, all of them when the
\* filter is empty.
C3_FilterConjunction ==
    Returned =>
        /\ \A i \in DOMAIN outcome.results :
              /\ Admitted(outcome.results[i].pos, call.metadata_filter)
              /\ \A k \in DOMAIN call.metadata_filter :
                    outcome.results[i].meta[k] = call.metadata_filter[k]
        /\ call.vector_k >= inst.ntotal =>
              DOMAIN outcome.vector_scores_raw =
                  {p \in Pos(inst.ntotal) : Admitted(p, call.metadata_filter)}

C3_Witness ==
    /\ Returned
    /\ call.metadata_filter = MathOf2025
    /\ Len(outcome.results) >= 1
    /\ \E p \in Pos(NumDocs) :
          /\ RLt(Zero, call.lex[p])
          /\ ~Admitted(p, MathOf2025)

\* C5: the list has min(top_n, |V union L|) entries, V and L the key sets of
\* the filtered raw maps, and no position occurs twice.
C5_ResultCount ==
    Returned =>
        /\ Len(outcome.results) =
              MinOf(call.top_n,
                    Cardinality(DOMAIN outcome.vector_scores_raw
                                \cup DOMAIN outcome.lexical_scores_raw))
        /\ \A i, j \in DOMAIN outcome.results :
              i # j => outcome.results[i].pos # outcome.results[j].pos

\* A list cut by top_n, holding a lexical-only position.
C5_Witness ==
    /\ Returned
    /\ call.top_n = 2
    /\ Cardinality(DOMAIN outcome.vector_scores_raw
                   \cup DOMAIN outcome.lexical_scores_raw) = 3
    /\ Len(outcome.results) = 2
    /\ \E i \in DOMAIN outcome.results :
          outcome.results[i].pos \notin DOMAIN outcome.vector_scores_raw

\* What C6 says of one raw map.
MinMaxLaws(scores) ==
    LET n == normalize_scores(scores)
        lo == RMin(Values(scores))
        hi == RMax(Values(scores))
    IN  /\ DOMAIN n = DOMAIN scores
        /\ DOMAIN scores # {} =>
              /\ lo = hi => \A k \in DOMAIN n : n[k] = One
              /\ lo # hi =>
                    \A k \in DOMAIN n :
                        RMul(n[k], RSub(hi, lo)) = RSub(scores[k], lo)
              /\ \A k \in DOMAIN n :
                    /\ RLeq(Zero, n[k]) /\ RLeq(n[k], One)
                    /\ scores[k] = hi => n[k] = One
                    /\ (scores[k] = lo /\ lo # hi) => n[k] = Zero
              /\ \A a, b \in DOMAIN n :
                    RLt(scores[a], scores[b]) => RLt(n[a], n[b])

\* C6: normalize_scores is min-max scaling on the raw maps of every call: the
\* same keys; 1 everywhere when all scores are equal; else (v - min) /
\* (max - min), within [0, 1], 1 at the maximum, 0 at the minimum, order kept.
C6_Normalization ==
    pc = "done" =>
        /\ MinMaxLaws(outcome.vector_scores_raw)
        /\ MinMaxLaws(outcome.lexical_scores_raw)
        /\ MinMaxLaws(EmptyDict)

\* A dense map of three different scores and a uniform lexical map of two.
C6_Witness ==
    /\ Returned
    /\ Cardinality(Values(outcome.vector_scores_raw)) = 3
    /\ Cardinality(DOMAIN outcome.lexical_scores_raw) = 2
    /\ Cardinality(Values(outcome.lexical_scores_raw)) = 1
    /\ \A i \in DOMAIN outcome.results :
          outcome.results[i].meta["combined_score"] = Num(outcome.results[i].score)

---------------------------------------------------------------------------
(* Claims about the build, checked under SpecBuild *)

\* C7: after export_to_vector_db, build_faiss_index_from_db and
\* build_bm25_index_from_db have run over the same chunk list (a list with
\* chunks, so that each of the three wrote its file), every position of the
\* dense index holds the embedding of the chunk that the document collection
\* and the BM25 corpus hold at that position.
C7_Lockstep ==
    (run = "meta" /\ get_rag_chunks_by_classification(db) # <<>>) =>
        \A p \in DOMAIN files.faiss.items :
            /\ p \in DOMAIN files.vector_db.items
            /\ p \in DOMAIN files.bm25.items
            /\ files.vector_db.items[p] = files.faiss.items[p]
            /\ files.bm25.items[p] = files.faiss.items[p]

CountMismatch == inst.loaded /\ inst.ntotal # Cardinality(DOMAIN inst.documents)

\* C8: on an instance loaded with a dense vector count that differs from the
\* document count, every retrieve returns, and no returned entry comes from a
\* position at or beyond the smaller of the two counts.
C8_MismatchTolerated ==
    (CountMismatch /\ pc = "done") =>
        /\ outcome.status = "returned"
        /\ \A i \in DOMAIN outcome.results :
              outcome.results[i].pos < MinOf(inst.ntotal, Cardinality(DOMAIN inst.documents))

---------------------------------------------------------------------------
(* Claims about the server, checked under SpecServer *)

\* C9: ensure_retriever hands every request a fully loaded HybridRetriever,
\* never None and never an instance whose construction is under way, and no
\* request fails on the instance it was handed.
C9_RequestHoldsLoadedInstance ==
    \A t \in DOMAIN thr :
        /\ thr[t].pc # "failed"
        /\ thr[t].pc \in {"use", "served"} =>
              /\ thr[t].retr # None
              /\ heap[thr[t].retr].loaded

---------------------------------------------------------------------------
(* Claims about concurrent calls, checked under SpecCallers *)

\* What a call returns when it runs alone on the instance as loaded.
Alone(c) ==
    {[status |-> o.status, results |-> o.results] :
        o \in retrieve(Loaded(CallerDocs), c.dense, c.lex, c.top_n,
                       c.metadata_filter, c.vector_k, c.bm25_k, c.alpha)}

\* C10: retrieve leaves the loaded instance as it was loaded (documents,
\* texts, metadata mappings without score or identifier keys, index sizes),
\* and under every interleaving each call returns what it returns alone.
C10_InstanceUnchanged ==
    /\ inst = Loaded(CallerDocs)
    /\ \A t \in DOMAIN thr :
          thr[t].pc = "done" => thr[t].out \in Alone(thr[t].call)

\* Two calls overlap: one has returned a list while the other is between its
\* searches and its fusion.
C10_Witness ==
    \E t \in DOMAIN thr, u \in DOMAIN thr :
        /\ t # u
        /\ thr[t].pc = "done"
        /\ thr[t].out.status = "returned"
        /\ thr[t].out.results # <<>>
        /\ thr[u].pc = "fusing"

---------------------------------------------------------------------------
(* Claims about the dense build, checked under SpecFaiss *)

\* An embedding that is missing, unparsable, empty or not 1-dimensional.
Malformed(e) ==
    \/ e.enc = "null"
    \/ e.enc \in {"list2", "text2"}
    \/ e.enc = "text" /\ e.n < 0
    \/ e.enc \in {"list", "blob", "text"} /\ e.n = 0

\* The well-formed entries of a chunk list whose width is not the most common
\* width among the well-formed ones.
Minority(rows) ==
    LET good == SelectSeq(rows, LAMBDA r : ~Malformed(r.embedding))
        widths == [i \in DOMAIN good |-> good[i].embedding.n]
    IN  {i \in DOMAIN good : widths[i] # MostCommonDim(widths)}

\* C11: the build reports a bad_count equal to the number of malformed
\* entries, whatever their encoding, and an index of size entries minus
\* bad_count minus the well-formed vectors of a minority width.
C11_BadCount ==
    (pc = "done" /\ outcome.status = "built") =>
        /\ outcome.bad_count =
              Cardinality({i \in DOMAIN db.rows : Malformed(db.rows[i].embedding)})
        /\ outcome.ntotal =
              Len(db.rows) - outcome.bad_count - Cardinality(Minority(db.rows))

---------------------------------------------------------------------------
(* Claims about loading, checked under SpecLoad *)

ConstructorReturned == pc = "idle" /\ outcome.status \in {"loaded", "SystemExit"}

\* C12: when any of the four persisted files (documents, dense index,
\* lexical index, index metadata) is absent, the construction fails, names an
\* absent path, and produces no instance.
C12_MissingArtifact ==
    (ConstructorReturned /\ \E k \in DOMAIN files : ~files[k].exists) =>
        /\ outcome.status = "SystemExit"
        /\ ~files[outcome.path].exists
        /\ inst = NotLoaded

---------------------------------------------------------------------------
(* Claims about _ensure_identifiers, checked under SpecIdent *)

NonNull(m, k) == k \in DOMAIN m /\ m[k] # Missing

\* C13: whatever the metadata mapping and the chunk text, the returned
\* mapping has non-null doc_id, doc_label and chunk_id and an integer
\* chunk_index.
C13_IdentifierTotality ==
    \A i \in DOMAIN outcome.calls :
        LET r == outcome.calls[i].result
        IN  /\ NonNull(r, "doc_id")
            /\ NonNull(r, "doc_label")
            /\ NonNull(r, "chunk_id")
            /\ NonNull(r, "chunk_index")
            /\ r["chunk_index"][1] = "int"

LacksDocId(m) == ~Truthy(Get(m, "doc_id", Missing))

\* Two calls whose metadata lack doc_id and agree on matiere, on equal text.
SameSynthesisInput(a, b) ==
    /\ LacksDocId(a.metadata)
    /\ LacksDocId(b.metadata)
    /\ Get(a.metadata, "matiere", Missing) = Get(b.metadata, "matiere", Missing)
    /\ a.chunk = b.chunk

\* C14: the synthesized doc_id depends on the matiere field and the chunk
\* text only: two calls that agree on both return the same doc_id, whatever
\* the other fields and whichever call came first.
C14_DeterministicSynthesis ==
    \A i \in DOMAIN outcome.calls, j \in DOMAIN outcome.calls :
        SameSynthesisInput(outcome.calls[i], outcome.calls[j]) =>
            outcome.calls[i].result["doc_id"] = outcome.calls[j].result["doc_id"]

\* Two calls on equal text and matiere, without doc_id, that differ in their
\* label, got the same doc_id, made of matiere and text.
C14_Witness ==
    /\ outcome.status = "two"
    /\ SameSynthesisInput(outcome.calls[1], outcome.calls[2])
    /\ Get(outcome.calls[1].metadata, "doc_label", Missing)
          # Get(outcome.calls[2].metadata, "doc_label", Missing)
    /\ outcome.calls[1].metadata # outcome.calls[2].metadata
    /\ outcome.calls[1].result["doc_id"] = Str("math-#chunk1")
    /\ outcome.calls[2].result["doc_id"] = Str("math-#chunk1")

---------------------------------------------------------------------------
(* External call failures and degenerate queries (SpecAsk) *)

EmbedderFailed == call.responses[1].kind = "error"
GeneratorFailed == outcome.response.chat_calls = 1 /\ ~call.chat_ok

\* C15: when the embedding call fails, retrieve lets the failure pass to its
\* caller, returns no passage list and has invoked the embedder exactly once;
\* when the generator call fails, ask_question answers with a failure (500)
\* and no answer text.
C15_ExternalCallFailure ==
    pc = "done" =>
        /\ EmbedderFailed =>
              /\ outcome.status = "embed_error"
              /\ outcome.results = <<>>
              /\ outcome.embed_calls = 1
              /\ outcome.response = ServerError
        /\ (~EmbedderFailed /\ GeneratorFailed) =>
              /\ outcome.response.code = 500
              /\ outcome.response.answer = "none"

\* The embedder failed on its only invocation and the request ended with the
\* failure.
C15_Witness ==
    /\ pc = "done"
    /\ EmbedderFailed
    /\ outcome.status = "embed_error"
    /\ outcome.embed_calls = 1

\* The query text yields no regex token, or the embedder's vector has zero
\* norm.
DegenerateQuery ==
    /\ call.responses[1].kind = "vector"
    /\ \/ tokenize(call.question) = <<>>
       \/ Norm(call.responses[1].vec) = Zero

\* C16: for a query without tokens or with a zero-norm embedding, retrieve
\* returns; the zero-norm embedding became the zero vector of the same length,
\* the whitespace split was used when the regex gave nothing, and an empty
\* token list put nothing into the lexical map.
C16_DegenerateQuery ==
    (pc \in {"generate", "done"} /\ DegenerateQuery) =>
        /\ outcome.status = "returned"
        /\ Norm(call.responses[1].vec) = Zero =>
              /\ outcome.query_vec = ZerosLike(call.responses[1].vec)
              /\ Len(outcome.query_vec) = Len(call.responses[1].vec)
        /\ tokenize(call.question) = <<>> =>
              outcome.tokens = LowerSplit(call.question)
        /\ outcome.tokens = <<>> => outcome.lexical_scores_raw = EmptyDict

\* Punctuation only and a zero-norm embedding: the call returned, the tokens
\* are those of the whitespace split.
C16_Witness ==
    /\ pc = "generate"
    /\ call.question = "?!"
    /\ Norm(call.responses[1].vec) = Zero
    /\ outcome.status = "returned"
    /\ outcome.tokens = <<"?!">>

---------------------------------------------------------------------------
(* Ranking of the returned list (Spec) *)

\* The dense scores of the returned positions, in list order.
DenseOf(results, vraw) == [i \in DOMAIN results |-> Get(vraw, results[i].pos, Zero)]

NonIncreasing(s) == \A i, j \in DOMAIN s : i < j => RLeq(s[j], s[i])

\* The call is over; no position has a positive BM25 score for the query, so
\* the lexical side has no candidate, and the dense side has one unless the
\* call raised.
DenseOnly ==
    /\ pc = "done"
    /\ \A p \in DOMAIN call.lex : ~RLt(Zero, call.lex[p])
    /\ outcome.status = "returned" =>
          /\ outcome.lexical_scores_raw = EmptyDict
          /\ outcome.vector_scores_raw # EmptyDict

\* C17: with no lexical candidate and at least one dense candidate, retrieve
\* does not raise and returns the dense candidates in descending order of
\* dense score, the best top_n of them.
C17_PureVectorRanking ==
    DenseOnly =>
        /\ outcome.status = "returned"
        /\ Len(outcome.results) =
              MinOf(call.top_n, Cardinality(DOMAIN outcome.vector_scores_raw))
        /\ \A i \in DOMAIN outcome.results :
              outcome.results[i].pos \in DOMAIN outcome.vector_scores_raw
        /\ NonIncreasing(DenseOf(outcome.results, outcome.vector_scores_raw))
        /\ \A i \in DOMAIN outcome.results :
              \A p \in DOMAIN outcome.vector_scores_raw :
                 p \notin {outcome.results[j].pos : j \in DOMAIN outcome.results} =>
                    RLeq(outcome.vector_scores_raw[p],
                         outcome.vector_scores_raw[outcome.results[i].pos])

\* The scores of the returned entries, in list order.
ScoresOf(results) == [i \in DOMAIN results |-> results[i].score]

\* C19: the list retrieve returns is non-increasing in combined_score from
\* its first to its last entry, and each entry's combined_score is the score
\* it is listed with.
C19_Descending ==
    (pc = "done" /\ outcome.status = "returned") =>
        /\ NonIncreasing(ScoresOf(outcome.results))
        /\ \A i \in DOMAIN outcome.results :
              outcome.results[i].meta["combined_score"] = Num(outcome.results[i].score)

\* Three entries returned, each scoring strictly below the one before.
C19_Witness ==
    /\ pc = "done"
    /\ outcome.status = "returned"
    /\ Len(outcome.results) = 3
    /\ \A i \in 1 .. 2 : RLt(outcome.results[i + 1].score, outcome.results[i].score)

ReturnedSet == {outcome.results[i].pos : i \in DOMAIN outcome.results}

\* C20: a position whose BM25 score is <= 0 is not in the raw lexical map;
\* each returned entry has lexical_score 0.0 and is no lexical candidate, or
\* a positive lexical_score; a returned position is a dense candidate or has
\* a positive BM25 score.
C20_PositiveLexical ==
    (pc = "done" /\ outcome.status = "returned") =>
        /\ \A p \in DOMAIN outcome.lexical_scores_raw :
              /\ RLt(Zero, call.lex[p])
              /\ outcome.lexical_scores_raw[p] = call.lex[p]
        /\ \A i \in DOMAIN outcome.results :
              LET e == outcome.results[i]
              IN  \/ /\ e.meta["lexical_score"] = Num(Zero)
                     /\ e.pos \notin DOMAIN outcome.lexical_scores_raw
                  \/ /\ e.pos \in DOMAIN outcome.lexical_scores_raw
                     /\ RLt(Zero, call.lex[e.pos])
                     /\ e.meta["lexical_score"] = Num(call.lex[e.pos])
        /\ \A p \in ReturnedSet :
              p \in DOMAIN outcome.vector_scores_raw \/ RLt(Zero, call.lex[p])

\* A call asking for three entries returned fewer: a position that passes the
\* filter, is in the BM25 top-k with score 0 and is no dense candidate was
\* left out, and an entry without lexical match was returned.
C20_Witness ==
    /\ pc = "done"
    /\ outcome.status = "returned"
    /\ call.top_n = 3
    /\ \E p \in DOMAIN call.lex :
          /\ call.lex[p] = Zero
          /\ metadata_matches(inst.documents[p].metadata, call.metadata_filter)
          /\ p \notin DOMAIN outcome.vector_scores_raw
          /\ p \notin ReturnedSet
    /\ \E i \in DOMAIN outcome.results :
          outcome.results[i].meta["lexical_score"] = Num(Zero)

---------------------------------------------------------------------------
(* The embedding model of queries (SpecServer, SpecLoad) *)

\* The model the index was built with, the built-in default if the metadata
\* file records none.
IndexModel ==
    IF RecordedModel(files.meta) # "None"
    THEN RecordedModel(files.meta)
    ELSE DEFAULT_EMBEDDING_MODEL

\* C18: when the caller names no embedding model, queries are embedded with
\* the model the metadata file records, the built-in default only if it
\* records none: for the instance HybridRetriever() returns and for the
\* instance a request without embed_model gets from ensure_retriever.
C18_RecordedModelUsed ==
    /\ (pc = "idle" /\ outcome.status = "loaded") =>
          outcome.embedding_model = IndexModel
    /\ \A t \in DOMAIN thr :
          (thr[t].pc \in {"use", "served"} /\ thr[t].embed_model = "None"
              /\ thr[t].retr # None) =>
             heap[thr[t].retr].embedding_model = IndexModel

---------------------------------------------------------------------------
(* What a returned entry carries (Spec) *)

\* The classification fields of a chunk's metadata.
ClassificationFields == {"matiere", "enseignant", "semestre", "promo"}

\* C21: each returned (text, score, metadata) has combined_score equal to
\* score, vector_score the raw dense score of its position or 0.0 if the
\* position was no dense candidate, lexical_score its raw BM25 score or 0.0 if
\* it was no lexical candidate, and the text and classification fields stored
\* for that position.
C21_AttachedScores ==
    (pc = "done" /\ outcome.status = "returned") =>
        \A i \in DOMAIN outcome.results :
            LET e == outcome.results[i]
                stored == inst.documents[e.pos]
            IN  /\ e.meta["combined_score"] = Num(e.score)
                /\ e.meta["vector_score"] =
                      IF e.pos \in DOMAIN outcome.vector_scores_raw
                      THEN Num(call.dense[e.pos]) ELSE Num(Zero)
                /\ e.meta["lexical_score"] =
                      IF e.pos \in DOMAIN outcome.lexical_scores_raw
                      THEN Num(call.lex[e.pos]) ELSE Num(Zero)
                /\ e.text = stored.text
                /\ \A k \in ClassificationFields :
                      /\ k \in DOMAIN e.meta <=> k \in DOMAIN stored.metadata
                      /\ k \in DOMAIN e.meta => e.meta[k] = stored.metadata[k]

\* A list with an entry that was no dense candidate, an entry that was no
\* lexical candidate, and an entry whose raw dense score 0.5 is not what
\* min-max scaling makes of it.
C21_Witness ==
    /\ pc = "done"
    /\ outcome.status = "returned"
    /\ \E i \in DOMAIN outcome.results :
          /\ outcome.results[i].pos \notin DOMAIN outcome.vector_scores_raw
          /\ outcome.results[i].meta["vector_score"] = Num(Zero)
    /\ \E i \in DOMAIN outcome.results :
          /\ outcome.results[i].pos \notin DOMAIN outcome.lexical_scores_raw
          /\ outcome.results[i].meta["lexical_score"] = Num(Zero)
    /\ \E i \in DOMAIN outcome.results :
          /\ outcome.results[i].meta["vector_score"] = Num(Rat(1, 2))
          /\ normalize_scores(outcome.vector_scores_raw)[outcome.results[i].pos] # Rat(1, 2)

---------------------------------------------------------------------------
(* The identifiers of a returned entry (SpecIdent) *)

\* The canonical chunk_id of a normalized mapping.
Canonical(meta) ==
    Str(Fmt(meta["doc_id"]) \o ":" \o Fmt(meta["page"]) \o ":" \o Fmt(meta["chunk_index"]))

\* C22: the metadata of every returned passage has chunk_id equal to
\* "{doc_id}:{page}:{chunk_index}" of the doc_id, page and chunk_index of that
\* same metadata, whatever identifier fields the stored chunk had.
C22_CanonicalChunkId ==
    \A i \in DOMAIN outcome.calls :
        outcome.calls[i].result["chunk_id"] = Canonical(outcome.calls[i].result)

\* C23: _ensure_identifiers gives a missing doc_label the doc_id, a missing
\* page "?", a missing chunk_index 0; it turns the chunk_index "7" into 7 and
\* an unparsable one into 0; and it returns a doc_id, doc_label, page, integer
\* chunk_index and chunk_id that were present unchanged.
C23_Defaults ==
    \A i \in DOMAIN outcome.calls :
        LET m == outcome.calls[i].metadata
            r == outcome.calls[i].result
            ci == Get(m, "chunk_index", Missing)
        IN  /\ ~Truthy(Get(m, "doc_label", Missing)) => r["doc_label"] = r["doc_id"]
            /\ "page" \notin DOMAIN m => r["page"] = Str("?")
            /\ ci = Missing => r["chunk_index"] = Int_(0)
            /\ ci = Str("7") => r["chunk_index"] = Int_(7)
            /\ ci = Str("x") => r["chunk_index"] = Int_(0)
            /\ ci[1] = "int" => r["chunk_index"] = ci
            /\ \A k \in {"doc_id", "doc_label", "chunk_id"} :
                  Truthy(Get(m, k, Missing)) => r[k] = m[k]
            /\ "page" \in DOMAIN m => r["page"] = m["page"]

\* Two calls: one without doc_label, page and chunk_index, one with the
\* chunk_index "7" and a doc_id, doc_label and page that are kept.
C23_Witness ==
    /\ outcome.status = "two"
    /\ DOMAIN outcome.calls[1].metadata \cap {"doc_label", "page", "chunk_index"} = {}
    /\ outcome.calls[1].result["page"] = Str("?")
    /\ Get(outcome.calls[2].metadata, "chunk_index", Missing) = Str("7")
    /\ outcome.calls[2].result["chunk_index"] = Int_(7)
    /\ outcome.calls[2].result["doc_id"] = Str("d0")
    /\ outcome.calls[2].result["doc_label"] = Str("Cours 0")
    /\ outcome.calls[2].result["page"] = Int_(1)

---------------------------------------------------------------------------
(* The vectors of a built dense index (SpecFaiss) *)

\* The length of the embedding of a row, 0 if it is not valid.
ValidDim(row) ==
    IF ParseEmbedding(row.embedding).kind = "valid"
    THEN ParseEmbedding(row.embedding).dim
    ELSE 0

ValidDims(rows) == {ValidDim(rows[i]) : i \in DOMAIN rows} \ {0}

HowMany(rows, d) == Cardinality({i \in DOMAIN rows : ValidDim(rows[i]) = d})

\* The ids of the rows whose valid embedding has length d, in row order.
IdsOfDim(rows, d) ==
    LET sel == SelectSeq(rows, LAMBDA r : ValidDim(r) = d)
    IN  [i \in DOMAIN sel |-> sel[i].id]

\* C24: when the valid embeddings disagree on length, the index written holds
\* exactly the valid embeddings of one most frequent length, in their original
\* order.
C24_MajorityDimension ==
    (pc = "done" /\ Cardinality(ValidDims(db.rows)) > 1) =>
        /\ outcome.status = "built"
        /\ files.faiss.exists
        /\ \E d \in ValidDims(db.rows) :
              /\ \A e \in ValidDims(db.rows) : HowMany(db.rows, e) <= HowMany(db.rows, d)
              /\ files.faiss.items = IdsOfDim(db.rows, d)

\* Three valid embeddings, the first of another length than the two behind
\* it: the index holds the second and the third.
C24_Witness ==
    /\ pc = "done"
    /\ Len(db.rows) = 3
    /\ \A i \in 1 .. 3 : ValidDim(db.rows[i]) # 0
    /\ ValidDim(db.rows[1]) # ValidDim(db.rows[2])
    /\ ValidDim(db.rows[2]) = ValidDim(db.rows[3])
    /\ files.faiss.items = <<2, 3>>

\* C25: build_faiss_index_from_db writes an index exactly when a valid
\* embedding remains; without one it ends in a failure its caller sees and
\* writes no file; with one it does not abort.
C25_FailLoudly ==
    pc = "done" =>
        /\ files.faiss.exists <=> ValidDims(db.rows) # {}
        /\ ValidDims(db.rows) = {} => (outcome.raised /\ outcome.status = "not built")
        /\ ValidDims(db.rows) # {} => (~outcome.raised /\ outcome.status = "built")

---------------------------------------------------------------------------
(* The threshold of ask_question (SpecAsk) *)

\* The request was answered after retrieve returned its list.
Answered == pc = "done" /\ outcome.status = "returned"

\* The greatest raw vector_score among the returned passages, 0 for none.
BestReturned ==
    IF outcome.results = <<>>
    THEN Zero
    ELSE RMax({Get(outcome.vector_scores_raw, outcome.results[i].pos, Zero)
               : i \in DOMAIN outcome.results})

\* C26: when retrieval succeeded and the best raw vector_score of the returned
\* passages is below the request's threshold, ask_question answers normally
\* with the fixed 'not found' answer and the retrieved sources and does not
\* call the generator; at or above the threshold it calls the generator
\* exactly once.
C26_Threshold ==
    Answered =>
        /\ RLt(BestReturned, call.threshold) =>
              /\ outcome.response.code = 200
              /\ outcome.response.answer = "not found"
              /\ Len(outcome.response.sources) = Len(outcome.results)
              /\ \A i \in DOMAIN outcome.results :
                    /\ outcome.response.sources[i].fragment = outcome.results[i].text
                    /\ outcome.response.sources[i].chunk_id =
                          outcome.results[i].meta["chunk_id"]
              /\ outcome.response.chat_calls = 0
        /\ ~RLt(BestReturned, call.threshold) => outcome.response.chat_calls = 1

\* A request whose best score equals its threshold 1.0 got the generator's
\* answer.
C26_Witness ==
    /\ Answered
    /\ call.threshold = One
    /\ BestReturned = One
    /\ outcome.response.chat_calls = 1
    /\ outcome.response.answer = "generated"

---------------------------------------------------------------------------
(* The candidate set and the backfill (Spec) *)

\* C27: the candidate set holds every key of the raw vector map, so the
\* backfill loop appends nothing and the fallback to the raw vector keys is
\* not taken; every returned entry is a candidate scored by the fusion
\* formula.
C27_BackfillNeverAppends ==
    Returned =>
        /\ DOMAIN normalize_scores(outcome.vector_scores_raw) =
              DOMAIN outcome.vector_scores_raw
        /\ DOMAIN outcome.vector_scores_raw \subseteq outcome.candidates
        /\ outcome.candidates =
              DOMAIN outcome.vector_scores_raw \cup DOMAIN outcome.lexical_scores_raw
        /\ outcome.appended = 0
        /\ ~outcome.fallback
        /\ \A i \in DOMAIN outcome.results :
              LET e == outcome.results[i]
              IN  /\ e.pos \in outcome.candidates
                  /\ e.score =
                        RAdd(RMul(call.alpha,
                                  Get(MinMax(outcome.vector_scores_raw), e.pos, Zero)),
                             RMul(RSub(One, call.alpha),
                                  Get(MinMax(outcome.lexical_scores_raw), e.pos, Zero)))

\* A call that asked for more entries than there are candidates, with dense
\* candidates: the backfill loop ran and appended nothing.
C27_Witness ==
    /\ Returned
    /\ outcome.vector_scores_raw # EmptyDict
    /\ Cardinality(outcome.candidates) < call.top_n
    /\ Len(outcome.results) = Cardinality(outcome.candidates)
    /\ outcome.appended = 0

\* C28: the instance ensure_retriever returns to a request that names an
\* embedding model has that model, also while other requests name other
\* models.
C28_OwnModel ==
    \A t \in DOMAIN thr :
        (thr[t].pc \in {"use", "served"} /\ thr[t].embed_model # "None"
            /\ thr[t].retr # None) =>
           heap[thr[t].retr].embedding_model = thr[t].embed_model

\* C29: VECTOR_DB, EMBEDDINGS and BM25_CORPUS have the same length and entry
\* i of each comes from the same chunk: the embedding of the record and the
\* tokens of its text, also after parse_pdf skipped an existing chunk_id.
C29_ListsAligned ==
    /\ Len(db.EMBEDDINGS) = Len(db.VECTOR_DB)
    /\ Len(db.BM25_CORPUS) = Len(db.VECTOR_DB)
    /\ \A i \in 1 .. Len(db.VECTOR_DB) :
          /\ db.EMBEDDINGS[i] = db.VECTOR_DB[i][2]
          /\ db.BM25_CORPUS[i] = ingest_tokenize(db.VECTOR_DB[i][1])

\* parse_pdf skipped one chunk and appended another after records were loaded.
C29_Witness ==
    /\ outcome.op = "parse_pdf"
    /\ outcome.skipped > 0
    /\ outcome.added > 0
    /\ Len(db.VECTOR_DB) >= 2
    /\ db.EMBEDDINGS[1] # db.EMBEDDINGS[2]

\* The id of the last call of the callback among the first k that returned,
\* or last_id when none did.
RECURSIVE LastDelivered(_, _)
LastDelivered(calls, k) ==
    IF k = 0 THEN DefaultLastId
    ELSE IF calls[k].ok THEN calls[k].id
    ELSE LastDelivered(calls, k - 1)

\* C30: the listener calls the callback on the first message after its
\* cursor, the cursor is the last message whose callback returned, a message
\* whose callback raised is the next one delivered while it is in the stream,
\* and no message of the stream at or before the cursor went undelivered.
C30_InOrderDelivery ==
    /\ thr.current_id = LastDelivered(heap, Len(heap))
    /\ \A k \in 1 .. Len(heap) :
          /\ heap[k].cursor = LastDelivered(heap, k - 1)
          /\ heap[k].id > heap[k].cursor
          /\ heap[k].behind = {}
    /\ \A k \in 1 .. Len(heap) - 1 :
          (~heap[k].ok /\ heap[k].id \in Values(db.entries)) =>
             heap[k + 1].id = heap[k].id
    /\ \A id \in Values(db.entries) :
          id <= thr.current_id =>
             \E k \in 1 .. Len(heap) : heap[k].id = id /\ heap[k].ok

\* A callback raised, the same message was delivered again and returned, and
\* the message behind it followed.
C30_Witness ==
    /\ Len(heap) >= 3
    /\ ~heap[1].ok
    /\ heap[2].ok /\ heap[2].id = heap[1].id
    /\ heap[3].id > heap[2].id
    /\ run = "running"

===========================================================================
